---- MODULE Spec2Model ----
(***************************************************************************)
(* Device communication and real-time control core of spherov2:            *)
(*   - SpheroEduAPI session (sphero_edu.py): activation, the control loop  *)
(*     thread (__background), the motion calls and deactivation;           *)
(*   - SpheroEduAPI sensor fusion (sphero_edu.py): __process_falling;      *)
(*   - BleakAdaptor (adapter/bleak_adapter.py): the event-loop thread and  *)
(*     the single-flight __execute.                                        *)
(* Each part has its own next-state relation and specification over the    *)
(* same variables.                                                         *)
(***************************************************************************)
EXTENDS Integers, Sequences, FiniteSets, TLC

VARIABLES
    \* ---- SpheroEduAPI session --------------------------------------------
    toyModel,       \* class of self.__toy
    heading,        \* self.__heading
    speed,          \* self.__speed
    stabilization,  \* self.__stabilization
    raw_motor,      \* self.__raw_motor (namedtuple left, right)
    stopped,        \* self.__stopped (threading.Event)
    updating,       \* self.__updating (threading.Lock): its holder
    toyOpen,        \* the toy's connection is entered and not yet exited
    ownerPc,        \* the thread running __enter__ / __exit__
    bgPc,           \* the control-loop thread (__background)
    bgH,            \* control loop: heading argument already evaluated
    callerPc,       \* a thread calling the motion API
    frame,          \* that call's arguments and entry state
    lastCmd,        \* the last command handed to the toy
    callEnd,        \* how that thread's last call ended: returned or raised
    spinFrame,      \* the local variables of spin
    \* ---- event listeners ------------------------------------------------
    listeners,      \* self.__listeners: per kind, key present and its set
    touched,        \* the kinds ever registered or dispatched
    regPc,          \* the thread calling register_event
    regCall,        \* its arguments
    regEnd,         \* how its last call ended: returned or raised
    dispatch,       \* __call_event_listener: the loop over the set
    atDispatch,     \* the callbacks registered for the kind when it began
    started,        \* the callbacks it has started a thread for
    dispatchEnd,    \* how the last dispatch ended: returned or raised
    execs,          \* the callback threads that are running
    cbEnd,          \* how the last callback thread to end did: done or failed
    nDispatch,      \* number of dispatches so far
    \* ---- LEDs -----------------------------------------------------------
    leds,           \* self.__leds: per channel, key present and its colour
    ledCmd,         \* the last LED command handed to the toy
    ledPc,          \* the thread calling the LED API
    ledFrame,       \* that call's arguments and local variables
    \* ---- sensor fusion ---------------------------------------------------
    falling_v,      \* self.__falling_v, scaled by VScale
    last_non_fall,  \* self.__last_non_fall, in clock ticks
    free_falling,   \* self.__free_falling
    should_land,    \* self.__should_land
    now,            \* time.time(), in clock ticks
    events,         \* the calls of __call_event_listener, in order
    samples,        \* number of samples ingested so far
    vertical_accel, \* self.__sensor_data['vertical_accel']: <<>> or <<a>>
    locator,        \* self.__sensor_data['locator']: <<>> or <<x, y>>
    last_location,  \* self.__last_location
    distance,       \* self.__sensor_data['distance']
    locs,           \* the locator readings ingested so far, in order
    \* ---- BleakAdaptor ----------------------------------------------------
    lock,           \* self.__lock: its holder
    loopState,      \* self.__event_loop: running, stopping, stopped, closed
    loopThread,     \* self.__thread: alive or finished
    pending,        \* coroutines submitted to the loop and not yet finished
    devConnected,   \* the bleak client's link state
    constructed,    \* __init__: pending, ok (returned) or raised
    pc,             \* each adaptor caller's position
    op,             \* each adaptor caller's current (or last) method
    co,             \* the coroutine that caller hands to __execute
    result,         \* each caller's future: none, ok, true, false, err
    ended,          \* how the caller's last call ended: returned or raised
    closedAtCall,   \* the loop was already closed when the call was made
    \* ---- R2D2 notification listeners ------------------------------------
    registry,       \* the toy's listeners, per notification kind
    wrappers,       \* number of function objects the add methods have created
    toyCall,        \* the last add/remove call and the registry before its add
    toyEnd,         \* how that call ended: returned or raised
    delivered       \* the listeners reached by the last notification

eduVars == <<toyModel, heading, speed, stabilization, raw_motor, stopped, updating,
             toyOpen, ownerPc, bgPc, bgH, callerPc, frame, lastCmd>>
fallVars == <<falling_v, last_non_fall, free_falling, should_land, now, events,
              samples, vertical_accel, locator, last_location, distance, locs>>
adaptorVars == <<lock, loopState, loopThread, pending, devConnected, constructed,
                 pc, op, co, result, ended, closedAtCall>>
eventVars == <<listeners, touched, regPc, regCall, regEnd, dispatch, atDispatch,
               started, dispatchEnd, execs, cbEnd, nDispatch>>
ledVars == <<leds, ledCmd, ledPc, ledFrame>>
toyVars == <<registry, wrappers, toyCall, toyEnd, delivered>>
apiVars == <<eventVars, ledVars, toyVars>>
callVars == <<callEnd, spinFrame, apiVars>>
vars == <<eduVars, fallVars, adaptorVars, callVars>>

(***************************************************************************)
(* Bounds of the model                                                     *)
(***************************************************************************)
\* number of sensor samples ingested in one behaviour
MaxSamples == 4
\* last value of the clock, in ticks of 0.1 time-units
MaxTime == 7
\* number of event dispatches in one behaviour
MaxDispatch == 2
\* number of listeners added to the toy in one behaviour
MaxWrappers == 2

(***************************************************************************)
(* Helpers                                                                 *)
(***************************************************************************)
\* spherov2.helper.bound_value
bound_value(lower, value, upper) ==
    IF value < lower THEN lower ELSE IF value > upper THEN upper ELSE value

\* Python round() of the rational n / d (d > 0): nearest integer, ties to even
PyRound(n, d) ==
    LET q == n \div d
        r == n - q * d
    IN  IF 2 * r < d THEN q
        ELSE IF 2 * r > d THEN q + 1
        ELSE IF q % 2 = 0 THEN q ELSE q + 1

\* the speed conversion of roll / set_speed for the Mini
MiniSpeed(s) ==
    IF s > 0 THEN PyRound((s + 126) * 2, 3) ELSE PyRound((s - 126) * 2, 3)

\* the value roll / set_speed store in self.__speed
TargetSpeed(model, s) ==
    bound_value(-255, IF model = "Mini" THEN MiniSpeed(s) ELSE s, 255)

\* the local variable speed of roll after the Mini conversion
LocalSpeed(model, s) == IF model = "Mini" THEN MiniSpeed(s) ELSE s

\* the value roll stores in self.__heading
RollHeading(model, h, s) ==
    IF LocalSpeed(model, s) < 0 THEN ((h % 360) + 180) % 360 ELSE h % 360

ToyModels == {"Mini", "R2D2"}
HeadingArgs == {90, -10}
SpeedArgs == {0, 100, -100}
Outcomes == {"ok", "fail"}

NoCmd == [kind |-> "none", heading |-> 0, speed |-> 0]
Cmd(k, h, s) == [kind |-> k, heading |-> h, speed |-> s]
NoFrame ==
    [op |-> "none", h |-> 0, hGiven |-> FALSE, s |-> 0, h0 |-> 0, s0 |-> 0,
     afterStop |-> FALSE, stabilize |-> FALSE, animation |-> "none",
                 waddle |-> FALSE]
NoSpin == [angle |-> 0, duration |-> 0, start |-> 0, angle_gone |-> 0, h0 |-> 0]

(***************************************************************************)
(* SpheroEduAPI session: initial state (after __init__)                    *)
(***************************************************************************)
EduInit ==
    /\ toyModel \in ToyModels
    /\ heading = 0
    /\ speed = 0
    /\ stabilization = TRUE
    /\ raw_motor = [left |-> 0, right |-> 0]
    /\ stopped = FALSE
    /\ updating = "free"
    /\ toyOpen = FALSE
    /\ ownerPc = "init"
    /\ bgPc = "unstarted"
    /\ bgH = 0
    /\ callerPc = "idle"
    /\ frame = NoFrame
    /\ lastCmd = NoCmd
    /\ callEnd = "none"
    /\ spinFrame = NoSpin

(***************************************************************************)
(* __enter__ and __exit__                                                  *)
(***************************************************************************)
\* self.__toy.__enter__()
EnterToy(outcome) ==
    /\ ownerPc = "init"
    /\ IF outcome = "ok"
       THEN toyOpen' = TRUE /\ ownerPc' = "e_start"
       ELSE toyOpen' = FALSE /\ ownerPc' = "enter_raised"
    /\ UNCHANGED <<fallVars, adaptorVars, callVars>>
    /\ UNCHANGED <<toyModel, heading, speed, stabilization, raw_motor, stopped,
                   updating, bgPc, bgH, callerPc, frame, lastCmd>>

\* self.__thread.start()
EnterStartThread ==
    /\ ownerPc = "e_start"
    /\ bgPc' = "wait"
    /\ ownerPc' = "e_wake"
    /\ UNCHANGED <<fallVars, adaptorVars, callVars>>
    /\ UNCHANGED <<toyModel, heading, speed, stabilization, raw_motor, stopped,
                   updating, toyOpen, bgH, callerPc, frame, lastCmd>>

\* self.__toy.wake()
EnterWake(outcome) ==
    /\ ownerPc = "e_wake"
    /\ IF outcome = "ok"
       THEN lastCmd' = Cmd("wake", 0, 0) /\ ownerPc' = "e_setup"
       ELSE lastCmd' = lastCmd /\ ownerPc' = "enter_raised"
    /\ UNCHANGED <<fallVars, adaptorVars, callVars>>
    /\ UNCHANGED <<toyModel, heading, speed, stabilization, raw_motor, stopped,
                   updating, toyOpen, bgPc, bgH, callerPc, frame>>

\* ToyUtil.set_robot_state_on_start, __start_capturing_sensor_data, return self
EnterSetup(outcome) ==
    /\ ownerPc = "e_setup"
    /\ ownerPc' = IF outcome = "ok" THEN "active" ELSE "enter_raised"
    /\ UNCHANGED <<fallVars, adaptorVars, callVars>>
    /\ UNCHANGED <<toyModel, heading, speed, stabilization, raw_motor, stopped,
                   updating, toyOpen, bgPc, bgH, callerPc, frame, lastCmd>>

\* self.__stopped.set()
ExitSet ==
    /\ ownerPc = "active"
    /\ stopped' = TRUE
    /\ ownerPc' = "x_join"
    /\ UNCHANGED <<fallVars, adaptorVars, callVars>>
    /\ UNCHANGED <<toyModel, heading, speed, stabilization, raw_motor, updating,
                   toyOpen, bgPc, bgH, callerPc, frame, lastCmd>>

\* a join that returns without waiting for the control-loop thread
ExitJoin_NoWait ==
    /\ ownerPc = "x_join"
    /\ ownerPc' = "x_sleep"
    /\ UNCHANGED <<fallVars, adaptorVars, callVars>>
    /\ UNCHANGED <<toyModel, heading, speed, stabilization, raw_motor, stopped,
                   updating, toyOpen, bgPc, bgH, callerPc, frame, lastCmd>>

\* self.__thread.join(): returns once the control-loop thread has ended
ExitJoin ==
    /\ ownerPc = "x_join"
    /\ bgPc = "done"
    /\ ownerPc' = "x_sleep"
    /\ UNCHANGED <<fallVars, adaptorVars, callVars>>
    /\ UNCHANGED <<toyModel, heading, speed, stabilization, raw_motor, stopped,
                   updating, toyOpen, bgPc, bgH, callerPc, frame, lastCmd>>

\* self.__toy.sleep(): an exception leaves __exit__ at once
ExitSleep(outcome) ==
    /\ ownerPc = "x_sleep"
    /\ IF outcome = "ok"
       THEN lastCmd' = Cmd("sleep", 0, 0) /\ ownerPc' = "x_toyexit"
       ELSE lastCmd' = lastCmd /\ ownerPc' = "exit_raised"
    /\ UNCHANGED <<fallVars, adaptorVars, callVars>>
    /\ UNCHANGED <<toyModel, heading, speed, stabilization, raw_motor, stopped,
                   updating, toyOpen, bgPc, bgH, callerPc, frame>>

\* self.__toy.__exit__(*args)
ExitToy ==
    /\ ownerPc = "x_toyexit"
    /\ toyOpen' = FALSE
    /\ ownerPc' = "exited"
    /\ UNCHANGED <<fallVars, adaptorVars, callVars>>
    /\ UNCHANGED <<toyModel, heading, speed, stabilization, raw_motor, stopped,
                   updating, bgPc, bgH, callerPc, frame, lastCmd>>

(***************************************************************************)
(* The control loop: __background, __update_speeds                         *)
(***************************************************************************)
\* a wait that never sees the stop signal
BgWait_IgnoreStop ==
    /\ bgPc = "wait"
    /\ bgPc' = "acquire"
    /\ UNCHANGED <<fallVars, adaptorVars, callVars>>
    /\ UNCHANGED <<toyModel, heading, speed, stabilization, raw_motor, stopped,
                   updating, toyOpen, ownerPc, bgH, callerPc, frame, lastCmd>>

\* while not self.__stopped.wait(0.8): the wait returns True as soon as the
\* event is set and False when the 0.8 time-units elapse without it
BgWait ==
    /\ bgPc = "wait"
    /\ bgPc' = IF stopped THEN "done" ELSE "acquire"
    /\ UNCHANGED <<fallVars, adaptorVars, callVars>>
    /\ UNCHANGED <<toyModel, heading, speed, stabilization, raw_motor, stopped,
                   updating, toyOpen, ownerPc, bgH, callerPc, frame, lastCmd>>

\* with self.__updating: (enter)
BgAcquire ==
    /\ bgPc = "acquire"
    /\ updating = "free"
    /\ updating' = "bg"
    /\ bgPc' = "check_speed"
    /\ UNCHANGED <<fallVars, adaptorVars, callVars>>
    /\ UNCHANGED <<toyModel, heading, speed, stabilization, raw_motor, stopped,
                   toyOpen, ownerPc, bgH, callerPc, frame, lastCmd>>

\* __update_speeds: if self.__speed != 0
BgCheckSpeed ==
    /\ bgPc = "check_speed"
    /\ bgPc' = IF speed # 0 THEN "read_heading" ELSE "update_raw"
    /\ UNCHANGED <<fallVars, adaptorVars, callVars>>
    /\ UNCHANGED <<toyModel, heading, speed, stabilization, raw_motor, stopped,
                   updating, toyOpen, ownerPc, bgH, callerPc, frame, lastCmd>>

\* __update_speed: the argument self.__heading is evaluated
BgReadHeading ==
    /\ bgPc = "read_heading"
    /\ bgH' = heading
    /\ bgPc' = "send_speed"
    /\ UNCHANGED <<fallVars, adaptorVars, callVars>>
    /\ UNCHANGED <<toyModel, heading, speed, stabilization, raw_motor, stopped,
                   updating, toyOpen, ownerPc, callerPc, frame, lastCmd>>

\* __update_speed: self.__speed is evaluated and ToyUtil.roll_start is called;
\* on a toy that is no longer open the call raises, which leaves the with
\* block (releasing the guard) and ends the thread
BgSendSpeed ==
    /\ bgPc = "send_speed"
    /\ IF toyOpen
       THEN /\ lastCmd' = Cmd("roll_start", bgH, speed)
            /\ bgPc' = "update_raw"
            /\ updating' = updating
       ELSE /\ lastCmd' = lastCmd
            /\ bgPc' = "done"
            /\ updating' = "free"
    /\ bgH' = 0
    /\ UNCHANGED <<fallVars, adaptorVars, callVars>>
    /\ UNCHANGED <<toyModel, heading, speed, stabilization, raw_motor, stopped,
                   toyOpen, ownerPc, callerPc, frame>>

\* __update_speeds: if left or right power is non-zero, __update_raw_motor
BgUpdateRawMotor ==
    /\ bgPc = "update_raw"
    /\ lastCmd' = IF (raw_motor.left # 0 \/ raw_motor.right # 0) /\ toyOpen
                  THEN Cmd("raw_motor", raw_motor.left, raw_motor.right)
                  ELSE lastCmd
    /\ bgPc' = "release"
    /\ UNCHANGED <<fallVars, adaptorVars, callVars>>
    /\ UNCHANGED <<toyModel, heading, speed, stabilization, raw_motor, stopped,
                   updating, toyOpen, ownerPc, bgH, callerPc, frame>>

\* with self.__updating: (exit)
BgRelease ==
    /\ bgPc = "release"
    /\ updating' = "free"
    /\ bgPc' = "wait"
    /\ UNCHANGED <<fallVars, adaptorVars, callVars>>
    /\ UNCHANGED <<toyModel, heading, speed, stabilization, raw_motor, stopped,
                   toyOpen, ownerPc, bgH, callerPc, frame, lastCmd>>

(***************************************************************************)
(* The motion calls, made by a thread of the user (the program body or an  *)
(* event callback) once activation has returned                            *)
(***************************************************************************)
Activated ==
    ownerPc \in {"active", "x_join", "x_sleep", "x_toyexit", "exited", "exit_raised"}

FirstPc(o) ==
    CASE o = "roll" -> "roll_speed"
      [] o = "set_speed" -> "ss_speed"
      [] o = "set_heading" -> "sh_heading"
      [] o = "stop_roll" -> "sr_heading"
      [] o = "raw_motor" -> "rm_stab"

\* a call is made: its arguments, and the state it finds
Call(o, h, given, s) ==
    /\ callerPc = "idle"
    /\ Activated
    /\ frame' = [op |-> o, h |-> h, hGiven |-> given, s |-> s,
                 h0 |-> heading, s0 |-> speed, afterStop |-> stopped,
                 stabilize |-> FALSE, animation |-> "none",
                 waddle |-> FALSE]
    /\ callerPc' = FirstPc(o)
    /\ callEnd' = "none"
    /\ UNCHANGED <<fallVars, adaptorVars, spinFrame, apiVars>>
    /\ UNCHANGED <<toyModel, heading, speed, stabilization, raw_motor, stopped,
                   updating, toyOpen, ownerPc, bgPc, bgH, lastCmd>>

CallRoll == \E h \in HeadingArgs, s \in SpeedArgs : Call("roll", h, TRUE, s)
CallSetSpeed == \E s \in SpeedArgs : Call("set_speed", 0, FALSE, s)
CallSetHeading == \E h \in HeadingArgs : Call("set_heading", h, TRUE, 0)
CallStopRoll ==
    \/ Call("stop_roll", 0, FALSE, 0)
    \/ \E h \in HeadingArgs : Call("stop_roll", h, TRUE, 0)
CallRawMotor == Call("raw_motor", 0, FALSE, 0)

\* the call returns
Return == callerPc' = "idle" /\ frame' = NoFrame /\ callEnd' = "returned"

\* an exception leaves the call
RaiseOut == callerPc' = "idle" /\ frame' = NoFrame /\ callEnd' = "raised"

\* roll, set_speed: self.__speed = bound_value(-255, speed, 255)
WriteSpeed ==
    /\ callerPc \in {"roll_speed", "ss_speed"}
    /\ speed' = TargetSpeed(toyModel, frame.s)
    /\ callerPc' = IF callerPc = "roll_speed" THEN "roll_heading" ELSE "send_start"
    /\ UNCHANGED <<fallVars, adaptorVars, callVars>>
    /\ UNCHANGED <<toyModel, heading, stabilization, raw_motor, stopped, updating,
                   toyOpen, ownerPc, bgPc, bgH, frame, lastCmd>>

\* roll, set_heading, stop_roll(heading): self.__heading = heading % 360
WriteHeading ==
    /\ callerPc \in {"roll_heading", "sh_heading", "sr_heading"}
    /\ heading' = IF frame.hGiven THEN frame.h % 360 ELSE heading
    /\ callerPc' =
          CASE callerPc = "roll_heading" ->
                 IF LocalSpeed(toyModel, frame.s) < 0 THEN "roll_flip" ELSE "send_start"
            [] callerPc = "sh_heading" -> "send_start"
            [] callerPc = "sr_heading" -> "send_stop"
    /\ UNCHANGED <<fallVars, adaptorVars, callVars>>
    /\ UNCHANGED <<toyModel, speed, stabilization, raw_motor, stopped, updating,
                   toyOpen, ownerPc, bgPc, bgH, frame, lastCmd>>

\* roll: if speed < 0: self.__heading = (self.__heading + 180) % 360
RollFlip ==
    /\ callerPc = "roll_flip"
    /\ heading' = (heading + 180) % 360
    /\ callerPc' = "send_start"
    /\ UNCHANGED <<fallVars, adaptorVars, callVars>>
    /\ UNCHANGED <<toyModel, speed, stabilization, raw_motor, stopped, updating,
                   toyOpen, ownerPc, bgPc, bgH, frame, lastCmd>>

\* __update_speed / set_heading: ToyUtil.roll_start(toy, heading, speed);
\* roll goes on to time.sleep(duration), the others return
SendStart ==
    /\ callerPc = "send_start"
    /\ IF toyOpen
       THEN /\ lastCmd' = Cmd("roll_start", heading, speed)
            /\ IF frame.op = "roll"
               THEN callerPc' = "roll_sleep" /\ frame' = frame /\ callEnd' = callEnd
               ELSE Return
       ELSE lastCmd' = lastCmd /\ RaiseOut
    /\ UNCHANGED <<fallVars, adaptorVars, spinFrame, apiVars>>
    /\ UNCHANGED <<toyModel, heading, speed, stabilization, raw_motor, stopped,
                   updating, toyOpen, ownerPc, bgPc, bgH>>

\* roll: time.sleep(duration) ends and stop_roll() is called
RollSleep ==
    /\ callerPc = "roll_sleep"
    /\ callerPc' = "send_stop"
    /\ UNCHANGED <<fallVars, adaptorVars, callVars>>
    /\ UNCHANGED <<toyModel, heading, speed, stabilization, raw_motor, stopped,
                   updating, toyOpen, ownerPc, bgPc, bgH, frame, lastCmd>>

\* stop_roll: ToyUtil.roll_stop(toy, self.__heading, False)
SendStop ==
    /\ callerPc = "send_stop"
    /\ IF toyOpen
       THEN lastCmd' = Cmd("roll_stop", heading, 0) /\ Return
       ELSE lastCmd' = lastCmd /\ RaiseOut
    /\ UNCHANGED <<fallVars, adaptorVars, spinFrame, apiVars>>
    /\ UNCHANGED <<toyModel, heading, speed, stabilization, raw_motor, stopped,
                   updating, toyOpen, ownerPc, bgPc, bgH>>

\* set_stabilization(stabilize): the flag, and the command on the models that
\* have one
SetStabilization(stabilize) ==
    /\ stabilization' = stabilize
    /\ lastCmd' = IF toyModel \in {"Sphero", "Mini", "Ollie", "BB8", "BB9E", "BOLT"}
                     /\ toyOpen
                  THEN Cmd("stabilization", 0, 0)
                  ELSE lastCmd

\* raw_motor: stabilize = self.__stabilization; if stabilize:
\* self.set_stabilization(False)
RawMotorStab ==
    /\ callerPc = "rm_stab"
    /\ IF stabilization
       THEN SetStabilization(FALSE)
       ELSE UNCHANGED <<stabilization, lastCmd>>
    /\ callerPc' = "rm_left"
    /\ frame' = [frame EXCEPT !.stabilize = stabilization]
    /\ UNCHANGED <<fallVars, adaptorVars, callVars>>
    /\ UNCHANGED <<toyModel, heading, speed, raw_motor, stopped, updating, toyOpen,
                   ownerPc, bgPc, bgH>>

\* raw_motor: self.__raw_motor.left = ... : the fields of a namedtuple cannot
\* be assigned, the statement raises AttributeError and the call ends
RawMotorLeft ==
    /\ callerPc = "rm_left"
    /\ RaiseOut
    /\ UNCHANGED <<fallVars, adaptorVars, spinFrame, apiVars>>
    /\ UNCHANGED <<toyModel, heading, speed, stabilization, raw_motor, stopped,
                   updating, toyOpen, ownerPc, bgPc, bgH, lastCmd>>

(***************************************************************************)
(* Sensor fusion: __process_falling, fed by _sensor_data_listener          *)
(* Accelerations are in hundredths of g, times in tenths of a time-unit;   *)
(* falling_v holds self.__falling_v times 100 * Unit, which keeps the      *)
(* repeated division by 4 exact for MaxSamples samples.                    *)
(***************************************************************************)
RECURSIVE Pow4(_)
Pow4(n) == IF n = 0 THEN 1 ELSE 4 * Pow4(n - 1)

Unit == Pow4(MaxSamples)

\* the vertical accelerations a sample may carry, in hundredths of g
AccelSamples == {0, -80, 100, 200}

\* self.__falling_v = 1. ; self.__last_non_fall = time.time()
FallInit ==
    /\ falling_v = 100 * Unit
    /\ last_non_fall = 0
    /\ free_falling = FALSE
    /\ should_land = FALSE
    /\ now = 0
    /\ events = <<>>
    /\ samples = 0
    /\ vertical_accel = <<>>
    /\ locator = <<>>
    /\ last_location = <<0, 0>>
    /\ distance = 0
    /\ locs = <<>>

\* self.__falling_v = (self.__falling_v + a * 3) / 4
SmoothedV(a) == (falling_v + a * Unit * 3) \div 4

\* a near-zero test that applies each mode's test in the other mode
NearZero_Swapped(v, a) ==
    IF stabilization
    THEN -10 < a /\ a < 10
    ELSE -50 * Unit < v /\ v < 50 * Unit

\* line 417: -.5 < v < .5 if self.__stabilization else -.1 < a < .1
NearZero(v, a) ==
    IF stabilization
    THEN -50 * Unit < v /\ v < 50 * Unit
    ELSE -10 < a /\ a < 10

\* a freefall test that forgets the free-falling flag
FreefallFires_NoFlag(v, a) ==
    NearZero(v, a) /\ now - last_non_fall > 2

\* line 418: cur - self.__last_non_fall > .2 and not self.__free_falling
FreefallFires(v, a) ==
    NearZero(v, a) /\ now - last_non_fall > 2 /\ ~free_falling

\* line 426: v < -1.1 or v > 1.1 if self.__stabilization else a < -.8 or a > -.8
LandingThreshold(v, a) ==
    IF stabilization
    THEN v < -110 * Unit \/ v > 110 * Unit
    ELSE a < -80 \/ a > -80

\* a landing test that forgets the pending-landing flag
LandingFires_IgnorePending(pendingLanding, v, a) == LandingThreshold(v, a)

\* line 425: self.__should_land and ( ... )
LandingFires(pendingLanding, v, a) == pendingLanding /\ LandingThreshold(v, a)

\* __process_falling(a), at clock value now
ProcessFalling(a) ==
    LET v == SmoothedV(a)
        fires == FreefallFires(v, a)
        pendingLanding == should_land \/ fires
        lands == LandingFires(pendingLanding, v, a)
    IN  /\ falling_v' = v
        /\ last_non_fall' = IF NearZero(v, a) THEN last_non_fall ELSE now
        /\ free_falling' = IF NearZero(v, a) THEN (free_falling \/ fires) ELSE FALSE
        /\ should_land' = (pendingLanding /\ ~lands)
        /\ events' = events \o (IF fires THEN <<"on_freefall">> ELSE <<>>)
                              \o (IF lands THEN <<"on_landing">> ELSE <<>>)

\* the locator readings a notification may carry: the corners of a 3 x 4
\* rectangle, whose pairwise distances are whole numbers
LocatorPoints == {<<0, 0>>, <<3, 0>>, <<0, 4>>, <<3, 4>>}

Abs(n) == IF n < 0 THEN -n ELSE n

\* math.hypot(dx, dy), for the displacements between two LocatorPoints
Hypot(dx, dy) ==
    CHOOSE r \in 0..(Abs(dx) + Abs(dy)) : r * r = dx * dx + dy * dy

\* a distance update that overwrites the total instead of adding to it
Travelled_Overwrite(cur_loc) ==
    Hypot(cur_loc[1] - last_location[1], cur_loc[2] - last_location[2])

\* line 411: self.__sensor_data['distance'] += math.hypot(...)
Travelled(cur_loc) ==
    distance + Hypot(cur_loc[1] - last_location[1], cur_loc[2] - last_location[2])

\* _sensor_data_listener(sensor_data): acc is the vertical acceleration the
\* notification's attitude and accelerometer readings give and loc its
\* locator reading, each <<>> when the notification does not carry it.
\* Both tests (lines 401 and 407) look at the stored readings, so a reading
\* of an earlier notification is processed again.
SensorDataListener(acc, loc) ==
    LET newAcc == IF acc # <<>> THEN acc ELSE vertical_accel
        newLoc == IF loc # <<>> THEN loc ELSE locator
    IN  /\ samples < MaxSamples
        /\ samples' = samples + 1
        /\ vertical_accel' = newAcc
        /\ locator' = newLoc
        /\ IF newAcc # <<>>
           THEN ProcessFalling(newAcc[1])
           ELSE UNCHANGED <<falling_v, last_non_fall, free_falling, should_land,
                            events>>
        /\ IF newLoc # <<>>
           THEN /\ distance' = Travelled(newLoc)
                /\ last_location' = newLoc
           ELSE UNCHANGED <<distance, last_location>>
        /\ locs' = IF loc # <<>> THEN Append(locs, loc) ELSE locs
        /\ now' = now

\* _sensor_data_listener with attitude and accelerometer readings present:
\* the vertical acceleration a is computed and handed to __process_falling
IngestSample(a) ==
    /\ SensorDataListener(<<a>>, <<>>)
    /\ UNCHANGED <<eduVars, adaptorVars, callVars>>

\* _sensor_data_listener with a locator reading
IngestLocator(p) ==
    /\ SensorDataListener(<<>>, p)
    /\ UNCHANGED <<eduVars, adaptorVars, callVars>>

\* _sensor_data_listener with neither reading (another sensor only)
IngestOther ==
    /\ SensorDataListener(<<>>, <<>>)
    /\ UNCHANGED <<eduVars, adaptorVars, callVars>>

\* time.time() advances
ClockTick ==
    /\ now < MaxTime
    /\ now' = now + 1
    /\ UNCHANGED <<falling_v, last_non_fall, free_falling, should_land, events,
                   samples, vertical_accel, locator, last_location, distance,
                   locs>>
    /\ UNCHANGED <<eduVars, adaptorVars, callVars>>

\* set_stabilization(stabilize), called between two samples
ToggleStabilization(stabilize) ==
    /\ stabilize # stabilization
    /\ SetStabilization(stabilize)
    /\ UNCHANGED <<fallVars, adaptorVars, callVars>>
    /\ UNCHANGED <<toyModel, heading, speed, raw_motor, stopped, updating, toyOpen,
                   ownerPc, bgPc, bgH, callerPc, frame>>

FusionNext ==
    \/ \E a \in AccelSamples : IngestSample(a)
    \/ ClockTick
    \/ \E stabilize \in BOOLEAN : ToggleStabilization(stabilize)

\* notifications with and without a locator reading
LocatorNext ==
    \/ \E p \in LocatorPoints : IngestLocator(p)
    \/ \E a \in AccelSamples : IngestSample(a)
    \/ IngestOther

EduNext ==
    \/ \E outcome \in Outcomes : EnterToy(outcome)
    \/ EnterStartThread
    \/ \E outcome \in Outcomes : EnterWake(outcome)
    \/ \E outcome \in Outcomes : EnterSetup(outcome)
    \/ ExitSet
    \/ ExitJoin
    \/ \E outcome \in Outcomes : ExitSleep(outcome)
    \/ ExitToy
    \/ BgWait
    \/ BgAcquire
    \/ BgCheckSpeed
    \/ BgReadHeading
    \/ BgSendSpeed
    \/ BgUpdateRawMotor
    \/ BgRelease
    \/ CallRoll
    \/ CallSetSpeed
    \/ CallSetHeading
    \/ CallStopRoll
    \/ CallRawMotor
    \/ WriteSpeed
    \/ WriteHeading
    \/ RollFlip
    \/ SendStart
    \/ RollSleep
    \/ SendStop
    \/ RawMotorStab
    \/ RawMotorLeft

(***************************************************************************)
(* spin(angle, duration), called in an active session while the control    *)
(* loop runs. Durations are rationals: spinFrame.duration counts 1/36000   *)
(* of a time-unit, a clock tick being 3600 of them.                        *)
(***************************************************************************)
\* one clock tick is 10 hundredths of a time-unit; the 360 is that of line 166
TickUnits == 10 * 360

\* the angle and duration arguments (the duration in clock ticks)
SpinAngles == {0, 1, -90, 360}
SpinDurations == {0, 4}
\* the heading and speed in force when the first spin is called
SpinStartHeadings == {0, 350}
SpinStartSpeeds == {0, 100}

\* lines 155-163: time_pre_rev, in hundredths of a time-unit
TimePerRev(model) ==
    CASE model = "RVR" -> 150
      [] model \in {"R2D2", "R2Q5"} -> 70
      [] model = "Mini" -> 50
      [] model = "Ollie" -> 60
      [] OTHER -> 45

Max(m, n) == IF m >= n THEN m ELSE n

\* line 166: duration = max(duration, time_pre_rev * abs_angle / 360)
SpinDuration(model, angle, d) ==
    Max(d * TickUnits, TimePerRev(model) * Abs(angle))

\* a target angle that leaves out the cap of the elapsed fraction at 1
SpinTarget_NoCap(elapsed, duration, abs_angle) ==
    PyRound(elapsed * TickUnits * abs_angle, duration)

\* line 173: round(min((time.time() - start) / duration, 1.) * abs_angle)
SpinTarget(elapsed, duration, abs_angle) ==
    IF elapsed * TickUnits >= duration
    THEN abs_angle
    ELSE PyRound(elapsed * TickUnits * abs_angle, duration)

\* the session is active, the control loop waits for its next tick, and
\* set_speed / set_heading have left the given heading and speed
SpinInit ==
    /\ toyModel \in ToyModels
    /\ heading \in SpinStartHeadings
    /\ speed \in {TargetSpeed(toyModel, s) : s \in SpinStartSpeeds \ {0}} \cup {0}
    /\ stabilization = TRUE
    /\ raw_motor = [left |-> 0, right |-> 0]
    /\ stopped = FALSE
    /\ updating = "free"
    /\ toyOpen = TRUE
    /\ ownerPc = "active"
    /\ bgPc = "wait"
    /\ bgH = 0
    /\ callerPc = "idle"
    /\ frame = NoFrame
    /\ lastCmd = IF heading = 0 /\ speed = 0
                 THEN Cmd("wake", 0, 0)
                 ELSE Cmd("roll_start", heading, speed)
    /\ callEnd = IF heading = 0 /\ speed = 0 THEN "none" ELSE "returned"
    /\ spinFrame = NoSpin

\* spin(angle, d) is called: lines 153-169
CallSpin(angle, d) ==
    /\ callerPc = "idle"
    /\ Activated
    /\ IF angle = 0
       THEN /\ callerPc' = "idle"
            /\ callEnd' = "returned"
            /\ spinFrame' = NoSpin
       ELSE /\ callerPc' = "spin_lock"
            /\ callEnd' = "none"
            /\ spinFrame' = [angle |-> angle,
                             duration |-> SpinDuration(toyModel, angle, d),
                             start |-> now, angle_gone |-> 0, h0 |-> heading]
    /\ UNCHANGED <<fallVars, adaptorVars, apiVars>>
    /\ UNCHANGED <<toyModel, heading, speed, stabilization, raw_motor, stopped,
                   updating, toyOpen, ownerPc, bgPc, bgH, frame, lastCmd>>

\* an entry of the loop that does not wait for the guard and does not take it
SpinAcquire_NoLock ==
    /\ callerPc = "spin_lock"
    /\ callerPc' = "spin_loop"
    /\ UNCHANGED <<fallVars, adaptorVars, callVars>>
    /\ UNCHANGED <<toyModel, heading, speed, stabilization, raw_motor, stopped,
                   updating, toyOpen, ownerPc, bgPc, bgH, frame, lastCmd>>

\* line 171: with self.__updating: (enter)
SpinAcquire ==
    /\ callerPc = "spin_lock"
    /\ updating = "free"
    /\ updating' = "caller"
    /\ callerPc' = "spin_loop"
    /\ UNCHANGED <<fallVars, adaptorVars, callVars>>
    /\ UNCHANGED <<toyModel, heading, speed, stabilization, raw_motor, stopped,
                   toyOpen, ownerPc, bgPc, bgH, frame, lastCmd>>

\* lines 172-176, one turn of the loop: the clock is read, set_heading stores
\* the new heading and sends it, and angle_gone grows by delta
SpinStep ==
    /\ callerPc = "spin_loop"
    /\ spinFrame.angle_gone < Abs(spinFrame.angle)
    /\ LET delta == SpinTarget(now - spinFrame.start, spinFrame.duration,
                               Abs(spinFrame.angle)) - spinFrame.angle_gone
           h == IF spinFrame.angle > 0
                THEN (heading + delta) % 360
                ELSE (heading - delta) % 360
       IN  /\ heading' = h
           /\ IF toyOpen
              THEN /\ lastCmd' = Cmd("roll_start", h, speed)
                   /\ spinFrame' =
                         [spinFrame EXCEPT !.angle_gone = spinFrame.angle_gone + delta]
                   /\ UNCHANGED <<callerPc, callEnd, updating>>
              ELSE /\ lastCmd' = lastCmd
                   /\ spinFrame' = spinFrame
                   /\ callerPc' = "idle"
                   /\ callEnd' = "raised"
                   /\ updating' = "free"
    /\ UNCHANGED <<fallVars, adaptorVars, apiVars>>
    /\ UNCHANGED <<toyModel, speed, stabilization, raw_motor, stopped, toyOpen,
                   ownerPc, bgPc, bgH, frame>>

\* line 172 finds angle_gone >= abs_angle: the with block is left and spin
\* returns
SpinReturn ==
    /\ callerPc = "spin_loop"
    /\ spinFrame.angle_gone >= Abs(spinFrame.angle)
    /\ updating' = "free"
    /\ callerPc' = "idle"
    /\ callEnd' = "returned"
    /\ UNCHANGED <<fallVars, adaptorVars, spinFrame, apiVars>>
    /\ UNCHANGED <<toyModel, heading, speed, stabilization, raw_motor, stopped,
                   toyOpen, ownerPc, bgPc, bgH, frame, lastCmd>>

\* spin(angle, d) called early enough for its duration to end within the
\* modelled clock range
CallSpinInTime(angle, d) ==
    /\ now * TickUnits + SpinDuration(toyModel, angle, d) <= MaxTime * TickUnits
    /\ CallSpin(angle, d)

\* __exit__ is entered while another thread calls spin, up to the return
\* of its join
StopNext ==
    \/ \E angle \in SpinAngles, d \in SpinDurations : CallSpinInTime(angle, d)
    \/ SpinAcquire
    \/ SpinStep
    \/ SpinReturn
    \/ ClockTick
    \/ BgWait
    \/ BgAcquire
    \/ BgCheckSpeed
    \/ BgReadHeading
    \/ BgSendSpeed
    \/ BgUpdateRawMotor
    \/ BgRelease
    \/ ExitSet
    \/ ExitJoin

SpinNext ==
    \/ \E angle \in SpinAngles, d \in SpinDurations : CallSpin(angle, d)
    \/ SpinAcquire
    \/ SpinStep
    \/ SpinReturn
    \/ ClockTick
    \/ BgWait
    \/ BgAcquire
    \/ BgCheckSpeed
    \/ BgReadHeading
    \/ BgSendSpeed
    \/ BgUpdateRawMotor
    \/ BgRelease

(***************************************************************************)
(* play_animation(animation), called in an active session while the        *)
(* control loop runs                                                       *)
(***************************************************************************)
\* line 232: hasattr(self.__toy, 'Animations'): the droids of the docstring
HasAnimations(model) == model \in {"BB8", "BB9E", "R2D2", "R2Q5"}

\* the animation arguments: a member of the toy's Animations or not
AnimationArgs == {"valid", "invalid"}

\* play_animation(animation) is called
CallPlayAnimation(animation) ==
    /\ callerPc = "idle"
    /\ Activated
    /\ callerPc' = "pa_check"
    /\ frame' = [NoFrame EXCEPT !.op = "play_animation", !.animation = animation,
                                !.h0 = heading, !.s0 = speed]
    /\ callEnd' = "none"
    /\ UNCHANGED <<fallVars, adaptorVars, spinFrame, apiVars>>
    /\ UNCHANGED <<toyModel, heading, speed, stabilization, raw_motor, stopped,
                   updating, toyOpen, ownerPc, bgPc, bgH, lastCmd>>

\* a check that takes every animation as one of the toy's
PlayAnimationCheck_NoValidation ==
    /\ callerPc = "pa_check"
    /\ IF ~HasAnimations(toyModel)
       THEN Return
       ELSE callerPc' = "pa_lock" /\ UNCHANGED <<frame, callEnd>>
    /\ UNCHANGED <<fallVars, adaptorVars, spinFrame, apiVars>>
    /\ UNCHANGED <<toyModel, heading, speed, stabilization, raw_motor, stopped,
                   updating, toyOpen, ownerPc, bgPc, bgH, lastCmd>>

\* lines 232-234: without Animations the call returns; an animation that is
\* not in the toy's Animations raises ValueError
PlayAnimationCheck ==
    /\ callerPc = "pa_check"
    /\ IF ~HasAnimations(toyModel)
       THEN Return
       ELSE IF frame.animation = "invalid"
       THEN RaiseOut
       ELSE callerPc' = "pa_lock" /\ UNCHANGED <<frame, callEnd>>
    /\ UNCHANGED <<fallVars, adaptorVars, spinFrame, apiVars>>
    /\ UNCHANGED <<toyModel, heading, speed, stabilization, raw_motor, stopped,
                   updating, toyOpen, ownerPc, bgPc, bgH, lastCmd>>

\* line 235: with self.__updating: (enter)
AnimAcquire ==
    /\ callerPc = "pa_lock"
    /\ updating = "free"
    /\ updating' = "caller"
    /\ callerPc' = "pa_stop"
    /\ UNCHANGED <<fallVars, adaptorVars, callVars>>
    /\ UNCHANGED <<toyModel, heading, speed, stabilization, raw_motor, stopped,
                   toyOpen, ownerPc, bgPc, bgH, frame, lastCmd>>

\* a __stop_all that leaves the speed as it is and sends nothing
AnimStopAll_KeepSpeed ==
    /\ callerPc = "pa_stop"
    /\ callerPc' = "pa_play"
    /\ updating' = "free"
    /\ UNCHANGED <<fallVars, adaptorVars, callVars>>
    /\ UNCHANGED <<toyModel, heading, speed, stabilization, raw_motor, stopped,
                   toyOpen, ownerPc, bgPc, bgH, frame, lastCmd>>

\* line 236 and __stop_all (lines 97-103): a non-zero speed is set to 0 and
\* sent; the raw power is (0, 0) whenever this runs; the with block is left
AnimStopAll ==
    /\ callerPc = "pa_stop"
    /\ raw_motor.left = 0 /\ raw_motor.right = 0
    /\ speed' = 0
    /\ IF speed # 0 /\ ~toyOpen
       THEN lastCmd' = lastCmd /\ RaiseOut
       ELSE /\ lastCmd' = IF speed # 0 THEN Cmd("roll_start", heading, 0) ELSE lastCmd
            /\ callerPc' = "pa_play"
            /\ UNCHANGED <<frame, callEnd>>
    /\ updating' = "free"
    /\ UNCHANGED <<fallVars, adaptorVars, spinFrame, apiVars>>
    /\ UNCHANGED <<toyModel, heading, stabilization, raw_motor, stopped, toyOpen,
                   ownerPc, bgPc, bgH>>

\* line 237: ToyUtil.play_animation(self.__toy, animation, True)
AnimPlay ==
    /\ callerPc = "pa_play"
    /\ frame.op = "play_animation"
    /\ IF toyOpen
       THEN lastCmd' = Cmd("play_animation", 0, 0) /\ Return
       ELSE lastCmd' = lastCmd /\ RaiseOut
    /\ UNCHANGED <<fallVars, adaptorVars, spinFrame, apiVars>>
    /\ UNCHANGED <<toyModel, heading, speed, stabilization, raw_motor, stopped,
                   updating, toyOpen, ownerPc, bgPc, bgH>>

\* set_waddle(waddle) is called; line 260: on a toy that is no R2D2 or R2Q5
\* the call returns at once
CallSetWaddle(waddle) ==
    /\ callerPc = "idle"
    /\ Activated
    /\ IF toyModel \in {"R2D2", "R2Q5"}
       THEN /\ callerPc' = "pa_lock"
            /\ frame' = [NoFrame EXCEPT !.op = "set_waddle", !.waddle = waddle,
                                        !.h0 = heading, !.s0 = speed]
            /\ callEnd' = "none"
       ELSE Return
    /\ UNCHANGED <<fallVars, adaptorVars, spinFrame, apiVars>>
    /\ UNCHANGED <<toyModel, heading, speed, stabilization, raw_motor, stopped,
                   updating, toyOpen, ownerPc, bgPc, bgH, lastCmd>>

\* line 263: ToyUtil.perform_leg_action(toy, WADDLE if waddle else STOP)
WaddleSend ==
    /\ callerPc = "pa_play"
    /\ frame.op = "set_waddle"
    /\ IF toyOpen
       THEN /\ lastCmd' = Cmd(IF frame.waddle THEN "leg_waddle" ELSE "leg_stop", 0, 0)
            /\ Return
       ELSE lastCmd' = lastCmd /\ RaiseOut
    /\ UNCHANGED <<fallVars, adaptorVars, spinFrame, apiVars>>
    /\ UNCHANGED <<toyModel, heading, speed, stabilization, raw_motor, stopped,
                   updating, toyOpen, ownerPc, bgPc, bgH>>

AnimNext ==
    \/ \E animation \in AnimationArgs : CallPlayAnimation(animation)
    \/ PlayAnimationCheck
    \/ AnimAcquire
    \/ AnimStopAll
    \/ AnimPlay
    \/ \E waddle \in BOOLEAN : CallSetWaddle(waddle)
    \/ WaddleSend
    \/ BgWait
    \/ BgAcquire
    \/ BgCheckSpeed
    \/ BgReadHeading
    \/ BgSendSpeed
    \/ BgUpdateRawMotor
    \/ BgRelease

\* roll(heading, speed, duration) called in an active session while the
\* control loop runs, as the only motion call of the program
RollNext ==
    \/ CallRoll
    \/ WriteSpeed
    \/ WriteHeading
    \/ RollFlip
    \/ SendStart
    \/ RollSleep
    \/ SendStop
    \/ BgWait
    \/ BgAcquire
    \/ BgCheckSpeed
    \/ BgReadHeading
    \/ BgSendSpeed
    \/ BgUpdateRawMotor
    \/ BgRelease

(***************************************************************************)
(* The motion calls made one after the other by a single thread in an      *)
(* active session, with arguments inside and outside their documented      *)
(* ranges                                                                  *)
(***************************************************************************)
WideSpeedArgs == {-400, -1, 0, 1, 300}
WideHeadingArgs == {450, -10, 360, 725}

CallRollWide ==
    \E h \in WideHeadingArgs, s \in WideSpeedArgs : Call("roll", h, TRUE, s)
CallSetSpeedWide == \E s \in WideSpeedArgs : Call("set_speed", 0, FALSE, s)
CallSetHeadingWide == \E h \in WideHeadingArgs : Call("set_heading", h, TRUE, 0)
CallStopRollWide ==
    \/ Call("stop_roll", 0, FALSE, 0)
    \/ \E h \in WideHeadingArgs : Call("stop_roll", h, TRUE, 0)

CallsNext ==
    \/ CallRollWide
    \/ CallSetSpeedWide
    \/ CallSetHeadingWide
    \/ CallStopRollWide
    \/ WriteSpeed
    \/ WriteHeading
    \/ RollFlip
    \/ SendStart
    \/ RollSleep
    \/ SendStop

(***************************************************************************)
(* Events: register_event, called by a thread of the user, beside          *)
(* __call_event_listener, called by the thread that ingests notifications, *)
(* and the threads it starts for the callbacks                             *)
(***************************************************************************)
EventKinds == {"on_freefall", "on_landing"}
\* the event_type arguments: the kinds and a value that is not an EventType
KindArgs == EventKinds \cup {"no_such_event"}
Callbacks == {"f", "g"}
\* the listener arguments: the callbacks and None
ListenerArgs == Callbacks \cup {"None"}

NoKey == [present |-> FALSE, fs |-> {}]
NoRegCall == [kind |-> "none", listener |-> "None"]
NoDispatch ==
    [pc |-> "idle", kind |-> "none", todo |-> {}, size |-> 0, cur |-> 0,
     live |-> FALSE]

\* line 65: self.__listeners = defaultdict(set)
EventInit ==
    /\ listeners = [k \in EventKinds |-> NoKey]
    /\ touched = {}
    /\ regPc = "idle"
    /\ regCall = NoRegCall
    /\ regEnd = "none"
    /\ dispatch = NoDispatch
    /\ atDispatch = {}
    /\ started = {}
    /\ dispatchEnd = "none"
    /\ execs = {}
    /\ cbEnd = "none"
    /\ nDispatch = 0

\* register_event(event_type, listener) is called
RegisterCall(k, f) ==
    /\ regPc = "idle"
    /\ regPc' = "called"
    /\ regCall' = [kind |-> k, listener |-> f]
    /\ regEnd' = "none"
    /\ UNCHANGED <<listeners, touched, dispatch, atDispatch, started, dispatchEnd,
                   execs, cbEnd, nDispatch>>
    /\ UNCHANGED <<eduVars, fallVars, adaptorVars, callEnd, spinFrame, ledVars,
                   toyVars>>

\* line 576: del self.__listeners[event_type]: KeyError when the kind has no
\* entry (del does not create one); a loop already running over the set
\* keeps the removed set
Removal(k) ==
    IF listeners[k].present
    THEN /\ listeners' = [listeners EXCEPT ![k] = NoKey]
         /\ regEnd' = "returned"
         /\ dispatch' = IF dispatch.pc = "loop" /\ dispatch.kind = k
                        THEN [dispatch EXCEPT !.live = FALSE]
                        ELSE dispatch
    ELSE /\ regEnd' = "raised"
         /\ UNCHANGED <<listeners, dispatch>>

\* line 574: self.__listeners[event_type].add(listener): the entry is created
\* when missing; a loop running over the same set sees its size change
Addition(k, f) ==
    LET fs == listeners[k].fs \cup {f}
    IN  /\ listeners' = [listeners EXCEPT ![k] = [present |-> TRUE, fs |-> fs]]
        /\ regEnd' = "returned"
        /\ dispatch' = IF dispatch.pc = "loop" /\ dispatch.kind = k /\ dispatch.live
                       THEN [dispatch EXCEPT !.cur = Cardinality(fs)]
                       ELSE dispatch

\* register_event, lines 571-576
RegisterRun ==
    /\ regPc = "called"
    /\ regPc' = "idle"
    /\ regCall' = NoRegCall
    /\ IF regCall.kind \notin EventKinds
       THEN /\ regEnd' = "raised"
            /\ UNCHANGED <<listeners, dispatch, touched>>
       ELSE IF regCall.listener # "None"
       THEN /\ Addition(regCall.kind, regCall.listener)
            /\ touched' = touched \cup {regCall.kind}
       ELSE /\ Removal(regCall.kind)
            /\ touched' = touched
    /\ UNCHANGED <<atDispatch, started, dispatchEnd, execs, cbEnd, nDispatch>>
    /\ UNCHANGED <<eduVars, fallVars, adaptorVars, callEnd, spinFrame, ledVars,
                   toyVars>>

\* line 562: for f in self.__listeners[event_type]: the lookup creates the
\* entry when missing, and the loop starts over the set found
DispatchBegin(k) ==
    /\ dispatch.pc = "idle"
    /\ nDispatch < MaxDispatch
    /\ nDispatch' = nDispatch + 1
    /\ listeners' = [listeners EXCEPT ![k].present = TRUE]
    /\ touched' = touched \cup {k}
    /\ dispatch' = [pc |-> "loop", kind |-> k, todo |-> listeners[k].fs,
                    size |-> Cardinality(listeners[k].fs),
                    cur |-> Cardinality(listeners[k].fs), live |-> TRUE]
    /\ atDispatch' = listeners[k].fs
    /\ started' = {}
    /\ dispatchEnd' = "none"
    /\ UNCHANGED <<regPc, regCall, regEnd, execs, cbEnd>>
    /\ UNCHANGED <<eduVars, fallVars, adaptorVars, callEnd, spinFrame, ledVars,
                   toyVars>>

\* lines 562-563, one turn of the loop: the set iterator raises RuntimeError
\* when the set has changed size since the loop began; otherwise the next
\* callback gets its thread, or the loop ends
DispatchStep ==
    /\ dispatch.pc = "loop"
    /\ IF dispatch.cur # dispatch.size
       THEN /\ dispatch' = NoDispatch
            /\ dispatchEnd' = "raised"
            /\ started' = {}
            /\ atDispatch' = {}
            /\ execs' = execs
       ELSE IF dispatch.todo = {}
       THEN /\ dispatch' = NoDispatch
            /\ dispatchEnd' = "returned"
            /\ started' = {}
            /\ atDispatch' = {}
            /\ execs' = execs
       ELSE \E f \in dispatch.todo :
              /\ dispatch' = [dispatch EXCEPT !.todo = @ \ {f}]
              /\ started' = started \cup {f}
              /\ execs' = execs \cup {[n |-> nDispatch, kind |-> dispatch.kind,
                                        f |-> f]}
              /\ UNCHANGED <<dispatchEnd, atDispatch>>
    /\ UNCHANGED <<listeners, touched, regPc, regCall, regEnd, cbEnd, nDispatch>>
    /\ UNCHANGED <<eduVars, fallVars, adaptorVars, callEnd, spinFrame, ledVars,
                   toyVars>>

\* a callback's thread ends, by returning or with an exception
CallbackEnds(how) ==
    /\ \E e \in execs : execs' = execs \ {e}
    /\ cbEnd' = how
    /\ UNCHANGED <<listeners, touched, regPc, regCall, regEnd, dispatch,
                   atDispatch, started, dispatchEnd, nDispatch>>
    /\ UNCHANGED <<eduVars, fallVars, adaptorVars, callEnd, spinFrame, ledVars,
                   toyVars>>

EventsNext ==
    \/ \E k \in KindArgs, f \in ListenerArgs : RegisterCall(k, f)
    \/ RegisterRun
    \/ \E k \in EventKinds : DispatchBegin(k)
    \/ DispatchStep
    \/ \E how \in {"done", "failed"} : CallbackEnds(how)

(***************************************************************************)
(* LEDs: set_main_led, set_front_led, set_back_led, fade and strobe,       *)
(* called one after the other by a thread of the user in an active         *)
(* session. A channel of a Color argument is <<v>>, or <<>> for None.      *)
(***************************************************************************)
LedChannels == {"main", "front", "back"}
Color(r, g, b) == [r |-> r, g |-> g, b |-> b]
Black == Color(0, 0, 0)
\* the Color arguments of the calls
ColorArgs ==
    {Color(<<300>>, <<-5>>, <<90>>), Color(<<0>>, <<255>>, <<0>>),
     Color(<<>>, <<40>>, <<-300>>)}
\* the int arguments of set_back_led
BrightnessArgs == {-5, 128, 300}
\* the duration arguments of fade, in clock ticks
FadeDurations == {0, 2}

NoLedKey == [present |-> FALSE, color |-> Black]
NoLedCmd == [kind |-> "none", color |-> Black]
NoLedFrame ==
    [op |-> "none", from |-> Black, to |-> Black, duration |-> 0, start |-> 0,
     color |-> Black, i |-> 0, count |-> 0]

\* line 55: self.__leds = defaultdict(partial(Color, 0, 0, 0))
LedInit ==
    /\ leds = [ch \in LedChannels |-> NoLedKey]
    /\ ledCmd = NoLedCmd
    /\ ledPc = "idle"
    /\ ledFrame = NoLedFrame

\* spherov2.helper.bound_color: each channel, or the default's when None,
\* bounded to 0..255
bound_color(color, default) ==
    Color(bound_value(0, IF color.r = <<>> THEN default.r ELSE color.r[1], 255),
          bound_value(0, IF color.g = <<>> THEN default.g ELSE color.g[1], 255),
          bound_value(0, IF color.b = <<>> THEN default.b ELSE color.b[1], 255))

\* a colour made of whole channels, as an argument
AsArg(c) == Color(<<c.r>>, <<c.g>>, <<c.b>>)

\* a tail-light colour that takes the brightness as it comes
BackBrightness_Unbounded(brightness) == Color(0, 0, brightness)

\* line 310: Color(r=0, g=0, b=bound_value(0, color, 255))
BackBrightness(brightness) == Color(0, 0, bound_value(0, brightness, 255))

\* self.__leds[ch] = c for every ch of chs
Stored(chs, c) ==
    [ch \in LedChannels |->
        IF ch \in chs THEN [present |-> TRUE, color |-> c] ELSE leds[ch]]

\* set_main_led(color), lines 269-278: the colour is bounded, stored, sent
\* and copied to the channels that share the main LED
MainLed(color) ==
    LET c == bound_color(color, leds["main"].color)
    IN  /\ leds' = Stored(IF toyModel \in {"R2D2", "R2Q5", "BOLT", "RVR"}
                          THEN {"main", "front", "back"}
                          ELSE {"main"}, c)
        /\ ledCmd' = [kind |-> "main", color |-> c]

LedIdle == ledPc = "idle" /\ Activated /\ toyOpen

SetMainLed(color) ==
    /\ LedIdle
    /\ MainLed(color)
    /\ UNCHANGED <<ledPc, ledFrame>>
    /\ UNCHANGED <<eduVars, fallVars, adaptorVars, callEnd, spinFrame, eventVars,
                   toyVars>>

\* set_front_led(color), lines 287-289
SetFrontLed(color) ==
    /\ LedIdle
    /\ IF toyModel \in {"R2D2", "R2Q5", "BOLT", "RVR"}
       THEN LET c == bound_color(color, leds["front"].color)
            IN  /\ leds' = Stored({"front"}, c)
                /\ ledCmd' = [kind |-> "front", color |-> c]
       ELSE UNCHANGED <<leds, ledCmd>>
    /\ UNCHANGED <<ledPc, ledFrame>>
    /\ UNCHANGED <<eduVars, fallVars, adaptorVars, callEnd, spinFrame, eventVars,
                   toyVars>>

\* set_back_led(color) with a Color, lines 312-314
SetBackLed(color) ==
    /\ LedIdle
    /\ IF toyModel \in {"R2D2", "R2Q5", "BOLT", "RVR"}
       THEN LET c == bound_color(color, leds["back"].color)
            IN  /\ leds' = Stored({"back"}, c)
                /\ ledCmd' = [kind |-> "back", color |-> c]
       ELSE UNCHANGED <<leds, ledCmd>>
    /\ UNCHANGED <<ledPc, ledFrame>>
    /\ UNCHANGED <<eduVars, fallVars, adaptorVars, callEnd, spinFrame, eventVars,
                   toyVars>>

\* set_back_led(brightness) with an int, lines 309-311
SetBackLedBrightness(brightness) ==
    /\ LedIdle
    /\ leds' = Stored({"back"}, BackBrightness(brightness))
    /\ ledCmd' = [kind |-> "back_brightness", color |-> BackBrightness(brightness)]
    /\ UNCHANGED <<ledPc, ledFrame>>
    /\ UNCHANGED <<eduVars, fallVars, adaptorVars, callEnd, spinFrame, eventVars,
                   toyVars>>

\* fade(from_color, to_color, duration) is called: lines 319-322; the lookups
\* of self.__leds['main'] create the entry when missing
FadeCall(from, to, d) ==
    /\ LedIdle
    /\ ledPc' = "fade"
    /\ ledFrame' = [NoLedFrame EXCEPT
                      !.op = "fade",
                      !.from = bound_color(from, leds["main"].color),
                      !.to = bound_color(to, leds["main"].color),
                      !.duration = d, !.start = now]
    /\ leds' = [leds EXCEPT !["main"].present = TRUE]
    /\ UNCHANGED ledCmd
    /\ UNCHANGED <<eduVars, fallVars, adaptorVars, callEnd, spinFrame, eventVars,
                   toyVars>>

\* line 329: round(from * (1 - frac) + to * frac), frac = elapsed / duration
Blend(from, to, elapsed, duration) ==
    PyRound(from * (duration - elapsed) + to * elapsed, duration)

\* lines 323-331, one turn of the loop: a zero duration raises
\* ZeroDivisionError; at frac >= 1 the loop ends, to_color is set and fade
\* returns; before that the blended colour is set
FadeStep ==
    /\ ledPc = "fade"
    /\ LET e == now - ledFrame.start
           d == ledFrame.duration
       IN  IF d = 0
           THEN /\ ledPc' = "idle"
                /\ ledFrame' = [NoLedFrame EXCEPT !.op = "raised"]
                /\ UNCHANGED <<leds, ledCmd>>
           ELSE IF e >= d
           THEN /\ MainLed(AsArg(ledFrame.to))
                /\ ledPc' = "idle"
                /\ ledFrame' = NoLedFrame
           ELSE /\ MainLed(Color(<<Blend(ledFrame.from.r, ledFrame.to.r, e, d)>>,
                                  <<Blend(ledFrame.from.g, ledFrame.to.g, e, d)>>,
                                  <<Blend(ledFrame.from.b, ledFrame.to.b, e, d)>>))
                /\ UNCHANGED <<ledPc, ledFrame>>
    /\ UNCHANGED <<eduVars, fallVars, adaptorVars, callEnd, spinFrame, eventVars,
                   toyVars>>

\* strobe(color, period, count) is called
StrobeCall(color, count) ==
    /\ LedIdle
    /\ ledPc' = "strobe"
    /\ ledFrame' = [NoLedFrame EXCEPT !.op = "strobe", !.color = color,
                                      !.count = count]
    /\ UNCHANGED <<leds, ledCmd>>
    /\ UNCHANGED <<eduVars, fallVars, adaptorVars, callEnd, spinFrame, eventVars,
                   toyVars>>

\* lines 339-344, one turn of the loop (with its sleep), or its end
StrobeStep ==
    /\ ledPc = "strobe"
    /\ IF ledFrame.i < ledFrame.count * 2
       THEN /\ MainLed(IF ledFrame.i % 2 = 1 THEN ledFrame.color ELSE AsArg(Black))
            /\ ledFrame' = [ledFrame EXCEPT !.i = @ + 1]
            /\ ledPc' = ledPc
       ELSE /\ ledPc' = "idle"
            /\ ledFrame' = NoLedFrame
            /\ UNCHANGED <<leds, ledCmd>>
    /\ UNCHANGED <<eduVars, fallVars, adaptorVars, callEnd, spinFrame, eventVars,
                   toyVars>>

LedsNext ==
    \/ \E color \in ColorArgs : SetMainLed(color)
    \/ \E color \in ColorArgs : SetFrontLed(color)
    \/ \E color \in ColorArgs : SetBackLed(color)
    \/ \E brightness \in BrightnessArgs : SetBackLedBrightness(brightness)
    \/ \E from \in ColorArgs, to \in ColorArgs, d \in FadeDurations :
          FadeCall(from, to, d)
    \/ FadeStep
    \/ \E color \in ColorArgs : StrobeCall(color, 1)
    \/ StrobeStep
    \/ ClockTick

(***************************************************************************)
(* R2D2: the listeners of the four notification kinds. A function object   *)
(* is a record [f, n]: n = 0 is the user's function f itself, n > 0 the    *)
(* n-th function the add methods created around f.                         *)
(***************************************************************************)
R2Kinds == {"battery_state_changed", "gyro_max", "sensor_streaming_data",
            "collision_detected"}

NoToyCall == [op |-> "none", kind |-> "none", f |-> "none", afterAdd |-> FALSE,
              prior |-> {}]
NoDelivery == [kind |-> "none", to |-> {}]

ToyInit ==
    /\ registry = [k \in R2Kinds |-> {}]
    /\ wrappers = 0
    /\ toyCall = NoToyCall
    /\ toyEnd = "none"
    /\ delivered = NoDelivery

\* the user's function, as the object handed to add_... and remove_...
Itself(f) == [f |-> f, n |-> 0]

\* Toy._add_listener(key, listener)
AddToRegistry(reg, k, fn) == [reg EXCEPT ![k] = @ \cup {fn}]

\* Toy._remove_listener(key, listener), for a listener that is registered
RemoveFromRegistry(reg, k, fn) == [reg EXCEPT ![k] = @ \ {fn}]

\* Toy._remove_listener finds the listener under the key
Registered(reg, k, fn) == fn \in reg[k]

\* add_battery_state_changed_notify_listener, add_gyro_max_notify_listener,
\* add_sensor_streaming_data_notify_listener (a lambda around the listener)
\* and add_collision_detected_notify_listener (the local __process): a new
\* function object is created and handed to _add_listener
R2AddListener(k, f) ==
    /\ wrappers < MaxWrappers
    /\ wrappers' = wrappers + 1
    /\ registry' = AddToRegistry(registry, k, [f |-> f, n |-> wrappers + 1])
    /\ toyCall' = [op |-> "add", kind |-> k, f |-> f, afterAdd |-> FALSE,
                   prior |-> registry[k]]
    /\ toyEnd' = "returned"
    /\ delivered' = NoDelivery
    /\ UNCHANGED <<eduVars, fallVars, adaptorVars, callEnd, spinFrame, eventVars,
                   ledVars>>

\* remove_..._notify_listener(listener): the listener itself is handed to
\* _remove_listener, which fails when it is not registered under the key
R2RemoveListener(k, f) ==
    /\ IF Registered(registry, k, Itself(f))
       THEN /\ registry' = RemoveFromRegistry(registry, k, Itself(f))
            /\ toyEnd' = "returned"
       ELSE /\ registry' = registry
            /\ toyEnd' = "raised"
    /\ toyCall' = [op |-> "remove", kind |-> k, f |-> f,
                   afterAdd |-> (toyCall.op = "add" /\ toyCall.kind = k
                                 /\ toyCall.f = f),
                   prior |-> IF toyCall.op = "add" /\ toyCall.kind = k
                                /\ toyCall.f = f
                             THEN toyCall.prior ELSE registry[k]]
    /\ delivered' = NoDelivery
    /\ UNCHANGED wrappers
    /\ UNCHANGED <<eduVars, fallVars, adaptorVars, callEnd, spinFrame, eventVars,
                   ledVars>>

\* a notification of kind k arrives: every registered function object is
\* called, and each of those calls its listener
R2Notify(k) ==
    /\ delivered' = [kind |-> k, to |-> {w.f : w \in registry[k]}]
    /\ UNCHANGED <<registry, wrappers, toyCall, toyEnd>>
    /\ UNCHANGED <<eduVars, fallVars, adaptorVars, callEnd, spinFrame, eventVars,
                   ledVars>>

ToyNext ==
    \/ \E k \in R2Kinds, f \in Callbacks : R2AddListener(k, f)
    \/ \E k \in R2Kinds, f \in Callbacks : R2RemoveListener(k, f)
    \/ \E k \in R2Kinds : R2Notify(k)

(***************************************************************************)
(* BleakAdaptor                                                            *)
(***************************************************************************)
\* the threads using one adaptor; the first one constructs it
AThreads == {"t1", "t2"}
Constructor == "t1"
Methods == {"write", "set_callback", "close"}

\* __init__ up to self.__thread.start(): the loop runs in its thread, and the
\* constructing thread is about to __execute(self.__device.connect())
AdaptorInit ==
    /\ lock = "free"
    /\ loopState = "running"
    /\ loopThread = "alive"
    /\ pending = {}
    /\ devConnected = FALSE
    /\ constructed = "pending"
    /\ pc = [t \in AThreads |-> IF t = Constructor THEN "acquire" ELSE "idle"]
    /\ op = [t \in AThreads |-> IF t = Constructor THEN "ctor" ELSE "none"]
    /\ co = [t \in AThreads |-> IF t = Constructor THEN "connect" ELSE "none"]
    /\ result = [t \in AThreads |-> "none"]
    /\ ended = [t \in AThreads |-> "none"]
    /\ closedAtCall = [t \in AThreads |-> FALSE]

\* the coroutine a method hands to __execute first
FirstCoroutine(m) ==
    CASE m = "write" -> "write"
      [] m = "set_callback" -> "start_notify"
      [] m = "close" -> "is_connected"

\* a thread calls a method of the constructed adaptor
CallMethod(t, m) ==
    /\ constructed = "ok"
    /\ pc[t] = "idle"
    /\ op' = [op EXCEPT ![t] = m]
    /\ co' = [co EXCEPT ![t] = FirstCoroutine(m)]
    /\ pc' = [pc EXCEPT ![t] = "acquire"]
    /\ result' = [result EXCEPT ![t] = "none"]
    /\ ended' = [ended EXCEPT ![t] = "none"]
    /\ closedAtCall' = [closedAtCall EXCEPT ![t] = (loopState = "closed")]
    /\ UNCHANGED <<lock, loopState, loopThread, pending, devConnected, constructed>>
    /\ UNCHANGED <<eduVars, fallVars, callVars>>

\* an exception leaves the method running in thread t. In __init__ a failed
\* connect enters the except clause, which calls close(); an exception of
\* that close() is the one __init__ ends with
Raise(t) ==
    IF op[t] = "ctor"
    THEN /\ op' = [op EXCEPT ![t] = "ctor_close"]
         /\ co' = [co EXCEPT ![t] = "is_connected"]
         /\ pc' = [pc EXCEPT ![t] = "acquire"]
         /\ UNCHANGED <<ended, constructed>>
    ELSE /\ pc' = [pc EXCEPT ![t] = "idle"]
         /\ ended' = [ended EXCEPT ![t] = "raised"]
         /\ constructed' = IF op[t] = "ctor_close" THEN "raised" ELSE constructed
         /\ UNCHANGED <<op, co>>

\* the method running in thread t returns; the close() of the except clause
\* is followed by raise
Return_(t) ==
    /\ pc' = [pc EXCEPT ![t] = "idle"]
    /\ ended' = [ended EXCEPT ![t] =
                      IF op[t] = "ctor_close" THEN "raised" ELSE "returned"]
    /\ constructed' = CASE op[t] = "ctor" -> "ok"
                        [] op[t] = "ctor_close" -> "raised"
                        [] OTHER -> constructed
    /\ UNCHANGED <<op, co>>

\* an __execute that does not take the lock
ExecAcquire_NoLock(t) ==
    /\ pc[t] = "acquire"
    /\ lock' = t
    /\ pc' = [pc EXCEPT ![t] = "submit"]
    /\ result' = [result EXCEPT ![t] = "none"]
    /\ UNCHANGED <<loopState, loopThread, pending, devConnected, constructed, op, co,
                   ended, closedAtCall>>
    /\ UNCHANGED <<eduVars, fallVars, callVars>>

\* __execute: with self.__lock: (enter)
ExecAcquire(t) ==
    /\ pc[t] = "acquire"
    /\ lock = "free"
    /\ lock' = t
    /\ pc' = [pc EXCEPT ![t] = "submit"]
    /\ result' = [result EXCEPT ![t] = "none"]
    /\ UNCHANGED <<loopState, loopThread, pending, devConnected, constructed, op, co,
                   ended, closedAtCall>>
    /\ UNCHANGED <<eduVars, fallVars, callVars>>

\* __execute: asyncio.run_coroutine_threadsafe(coroutine, loop); a closed loop
\* refuses the callback with RuntimeError, which leaves the with block
ExecSubmit(t) ==
    /\ pc[t] = "submit"
    /\ IF loopState = "closed"
       THEN /\ lock' = "free"
            /\ Raise(t)
            /\ pending' = pending
       ELSE /\ pending' = pending \cup {[by |-> t, co |-> co[t]]}
            /\ pc' = [pc EXCEPT ![t] = "await"]
            /\ UNCHANGED <<lock, op, co, ended, constructed>>
    /\ UNCHANGED <<loopState, loopThread, devConnected, result, closedAtCall>>
    /\ UNCHANGED <<eduVars, fallVars, callVars>>

\* the link state a coroutine leaves; a failed connect may leave the link up
LinkAfter(c, how, partial) ==
    CASE c = "connect" -> IF how = "ok" THEN TRUE ELSE partial
      [] c = "disconnect" -> IF how = "ok" THEN FALSE ELSE devConnected
      [] OTHER -> devConnected

\* the value or exception the coroutine's future gets
FutureOf(c, how) ==
    CASE how = "fail" -> "err"
      [] c = "is_connected" -> IF devConnected THEN "true" ELSE "false"
      [] c \in {"write", "start_notify"} -> IF devConnected THEN "ok" ELSE "err"
      [] OTHER -> "ok"

\* the event-loop thread (run_forever) runs a submitted coroutine to its end
LoopRun(how, partial) ==
    /\ loopState = "running"
    /\ \E p \in pending :
          /\ pending' = pending \ {p}
          /\ devConnected' = LinkAfter(p.co, how, partial)
          /\ result' = [result EXCEPT ![p.by] = FutureOf(p.co, how)]
    /\ UNCHANGED <<lock, loopState, loopThread, constructed, pc, op, co, ended,
                   closedAtCall>>
    /\ UNCHANGED <<eduVars, fallVars, callVars>>

\* __execute: .result() returns or raises, and the with block is left
ExecResult(t) ==
    /\ pc[t] = "await"
    /\ result[t] # "none"
    /\ lock' = "free"
    /\ CASE result[t] = "err" -> Raise(t)
         [] co[t] = "is_connected" /\ result[t] = "true" ->
              /\ co' = [co EXCEPT ![t] = "disconnect"]
              /\ pc' = [pc EXCEPT ![t] = "acquire"]
              /\ UNCHANGED <<op, ended, constructed>>
         [] co[t] = "is_connected" /\ result[t] = "false" ->
              /\ pc' = [pc EXCEPT ![t] = "stop_acquire"]
              /\ UNCHANGED <<op, co, ended, constructed>>
         [] co[t] = "disconnect" /\ result[t] # "err" ->
              /\ pc' = [pc EXCEPT ![t] = "stop_acquire"]
              /\ UNCHANGED <<op, co, ended, constructed>>
         [] OTHER -> Return_(t)
    /\ UNCHANGED <<loopState, loopThread, pending, devConnected, result, closedAtCall>>
    /\ UNCHANGED <<eduVars, fallVars, callVars>>

\* close: with self.__lock: (enter)
CloseAcquire(t) ==
    /\ pc[t] = "stop_acquire"
    /\ lock = "free"
    /\ lock' = t
    /\ pc' = [pc EXCEPT ![t] = "stop"]
    /\ UNCHANGED <<loopState, loopThread, pending, devConnected, constructed, op, co,
                   result, ended, closedAtCall>>
    /\ UNCHANGED <<eduVars, fallVars, callVars>>

\* close: self.__event_loop.call_soon_threadsafe(self.__event_loop.stop); a
\* closed loop refuses it with RuntimeError
CloseStop(t) ==
    /\ pc[t] = "stop"
    /\ IF loopState = "closed"
       THEN /\ lock' = "free"
            /\ Raise(t)
            /\ loopState' = loopState
       ELSE /\ loopState' = IF loopState = "running" THEN "stopping" ELSE loopState
            /\ pc' = [pc EXCEPT ![t] = "join"]
            /\ UNCHANGED <<lock, op, co, ended, constructed>>
    /\ UNCHANGED <<loopThread, pending, devConnected, result, closedAtCall>>
    /\ UNCHANGED <<eduVars, fallVars, callVars>>

\* the event-loop thread runs the stop callback: run_forever returns and the
\* thread ends
LoopStop ==
    /\ loopState = "stopping"
    /\ loopState' = "stopped"
    /\ loopThread' = "finished"
    /\ UNCHANGED <<lock, pending, devConnected, constructed, pc, op, co, result,
                   ended, closedAtCall>>
    /\ UNCHANGED <<eduVars, fallVars, callVars>>

\* close: self.__thread.join() returns and the with block is left
CloseJoin(t) ==
    /\ pc[t] = "join"
    /\ loopThread = "finished"
    /\ lock' = "free"
    /\ pc' = [pc EXCEPT ![t] = "loop_close"]
    /\ UNCHANGED <<loopState, loopThread, pending, devConnected, constructed, op, co,
                   result, ended, closedAtCall>>
    /\ UNCHANGED <<eduVars, fallVars, callVars>>

\* close: self.__event_loop.close(), then close returns
CloseLoop(t) ==
    /\ pc[t] = "loop_close"
    /\ loopState' = "closed"
    /\ Return_(t)
    /\ UNCHANGED <<lock, loopThread, pending, devConnected, result, closedAtCall>>
    /\ UNCHANGED <<eduVars, fallVars, callVars>>

AdaptorNext ==
    \/ \E t \in AThreads, m \in Methods : CallMethod(t, m)
    \/ \E t \in AThreads : ExecAcquire(t)
    \/ \E t \in AThreads : ExecSubmit(t)
    \/ \E how \in Outcomes, partial \in BOOLEAN : LoopRun(how, partial)
    \/ \E t \in AThreads : ExecResult(t)
    \/ \E t \in AThreads : CloseAcquire(t)
    \/ \E t \in AThreads : CloseStop(t)
    \/ LoopStop
    \/ \E t \in AThreads : CloseJoin(t)
    \/ \E t \in AThreads : CloseLoop(t)

ApiInit == EventInit /\ LedInit /\ ToyInit

Init == EduInit /\ FallInit /\ AdaptorInit /\ ApiInit

SpecEdu == Init /\ [][EduNext]_vars

SpecFusion == Init /\ [][FusionNext]_vars
SpecLocator == Init /\ [][LocatorNext]_vars

InitSpin == SpinInit /\ FallInit /\ AdaptorInit /\ ApiInit

SpecSpin == InitSpin /\ [][SpinNext]_vars

\* the clock advances, a thread that can run does run, the control loop
\* sleeps between two ticks (line 86) so that a thread waiting for the guard
\* gets it
SpinFairness ==
    /\ WF_vars(ClockTick)
    /\ SF_vars(SpinAcquire)
    /\ WF_vars(SpinStep)
    /\ WF_vars(SpinReturn)
    /\ WF_vars(BgCheckSpeed \/ BgReadHeading \/ BgSendSpeed \/ BgUpdateRawMotor
                 \/ BgRelease)

SpecSpinFair == InitSpin /\ [][SpinNext]_vars /\ SpinFairness

\* a driving toy in an active session
InitStop == InitSpin /\ heading = 0 /\ speed # 0

\* as SpinFairness, with the control loop's wait returning, the guard
\* reaching a control loop that waits for it, and the join returning
StopFairness ==
    /\ SpinFairness
    /\ WF_vars(BgWait)
    /\ SF_vars(BgAcquire)
    /\ WF_vars(ExitJoin)

SpecStop == InitStop /\ [][StopNext]_vars /\ StopFairness

SpecCalls == InitSpin /\ [][CallsNext]_vars

\* an active session in which no motion call has been made yet
InitQuiet == InitSpin /\ heading = 0 /\ speed = 0

\* an R2D2 in an active session
InitToy == InitQuiet /\ toyModel = "R2D2"

SpecToy == InitToy /\ [][ToyNext]_vars

SpecAnim == InitSpin /\ [][AnimNext]_vars

SpecRoll == InitQuiet /\ [][RollNext]_vars

SpecEvents == InitQuiet /\ [][EventsNext]_vars

SpecLeds == InitQuiet /\ [][LedsNext]_vars

SpecAdaptor == Init /\ [][AdaptorNext]_vars

(***************************************************************************)
(* Claims about the session                                                *)
(***************************************************************************)
\* MotionState once the call in progress has completed
PostState ==
    CASE frame.op = "roll" ->
           <<RollHeading(toyModel, frame.h, frame.s), TargetSpeed(toyModel, frame.s)>>
      [] frame.op = "set_speed" -> <<frame.h0, TargetSpeed(toyModel, frame.s)>>
      [] frame.op \in {"set_heading", "stop_roll"} ->
           <<IF frame.hGiven THEN frame.h % 360 ELSE frame.h0, frame.s0>>
      [] OTHER -> <<frame.h0, frame.s0>>

\* the (heading, speed) pairs MotionState holds between two complete calls:
\* the present one when no call is in progress, else the one the call found
\* and the one it leaves
ConsistentPairs ==
    IF callerPc = "idle"
    THEN {<<heading, speed>>}
    ELSE {<<frame.h0, frame.s0>>, PostState}

\* the control loop hands its roll command to the toy in this step
BgSends == bgPc = "send_speed" /\ bgPc' = "update_raw"

\* the caller's thread takes its sending step
CallerSendStep == callerPc \in {"send_start", "send_stop"} /\ callerPc' # callerPc

\* the caller is about to write heading, speed or stabilization
CallerWrites ==
    \/ callerPc \in {"roll_speed", "ss_speed", "roll_heading", "sh_heading", "roll_flip"}
    \/ callerPc = "sr_heading" /\ frame.hGiven
    \/ callerPc = "rm_stab" /\ stabilization

\* the control loop is inside a tick
BgInTick ==
    bgPc \in {"check_speed", "read_heading", "send_speed", "update_raw", "release"}

\* C1: every roll command the control loop sends carries a (heading, speed)
\* pair that MotionState held between two complete user calls; never the new
\* speed of a roll in progress with the heading from before it
C1_ConsistentDriveCommands ==
    [][BgSends => <<lastCmd'.heading, lastCmd'.speed>> \in ConsistentPairs]_vars

\* C2: a thread writing heading, speed or stabilization holds __updating, the
\* control loop holds it during a tick, and a user call and a tick are never
\* in progress together
C2_GuardHeldByWriters ==
    /\ CallerWrites => updating = "caller"
    /\ BgInTick => updating = "bg"
    /\ ~(callerPc # "idle" /\ BgInTick)

\* __exit__ is past the join
PastJoin == ownerPc \in {"x_sleep", "x_toyexit", "exited", "exit_raised"}

\* C3: once __exit__ is past the join (so before the sleep command and the
\* disconnect) the stop signal is set and the control-loop thread has ended,
\* and from then on the control loop sends no command
C3_JoinedBeforeSleep ==
    /\ [](PastJoin \/ lastCmd.kind = "sleep" => stopped /\ bgPc = "done")
    /\ [][PastJoin => ~BgSends /\ bgPc' = bgPc]_vars

\* C3 witness: teardown has completed for a session whose control loop had a
\* non-zero speed to keep alive
C3_Witness ==
    ownerPc = "exited" /\ ~toyOpen /\ bgPc = "done" /\ speed # 0
    /\ lastCmd.kind = "sleep"

\* C4: when __exit__ has ended, by returning or by raising, the toy's
\* connection has been released
C4_ReleasedOnEveryPath ==
    ownerPc \in {"exited", "exit_raised"} => ~toyOpen

\* C5: a motion call made after teardown has begun never hands a command to
\* the open connection
C5_NoCommandAfterTeardown ==
    [][frame.afterStop /\ CallerSendStep => ~toyOpen]_vars

\* C31: when __enter__ has raised after starting the control-loop thread,
\* that thread has ended and the toy's connection has been released
C31_FailedActivationCleansUp ==
    (ownerPc = "enter_raised" /\ bgPc # "unstarted") =>
        (bgPc = "done" /\ ~toyOpen)

\* C33: once __exit__ has set the stop signal the control loop begins no new
\* tick (the only tick still performed is one that had left the wait before
\* the signal), the control-loop thread ends and the join returns
C33_LoopEndsAfterStop ==
    /\ [][stopped => ~(bgPc = "wait" /\ bgPc' = "acquire")]_vars
    /\ stopped ~> (bgPc = "done" /\ ownerPc # "x_join")

\* C33 witness: the stop signal is set and the join waits, while the tick
\* that was waiting for the guard held by spin sends its roll command
C33_Witness ==
    /\ ownerPc = "x_join"
    /\ stopped
    /\ bgPc = "send_speed"
    /\ callerPc = "idle"
    /\ callEnd = "returned"
    /\ spinFrame.angle # 0

(***************************************************************************)
(* Claims about the stored speed and heading                               *)
(***************************************************************************)
\* C21: when stop_roll returns (called directly or at the end of roll), the
\* target speed is 0
C21_StopRollZeroesSpeed ==
    [][(callerPc = "send_stop" /\ callEnd' = "returned") => speed' = 0]_vars

\* C22: set_speed(0) stores the target speed 0 on every model, and every
\* speed set_speed stores lies in -255..255
C22_SetSpeedZeroStops ==
    [][(callerPc = "ss_speed" /\ callerPc' # callerPc) =>
         /\ frame.s = 0 => speed' = 0
         /\ speed' \in -255..255]_vars

\* the heading the call in progress was asked for
HeadingAsked ==
    CASE frame.op = "roll" ->
           IF frame.s < 0 THEN (frame.h + 180) % 360 ELSE frame.h % 360
      [] frame.op = "set_heading" -> frame.h % 360
      [] frame.op = "stop_roll" /\ frame.hGiven -> frame.h % 360
      [] OTHER -> heading

\* C23: the stored heading is always in 0..359, and when a call sends its
\* command the stored heading is the requested one modulo 360 (plus 180 for a
\* roll with a negative speed)
C23_HeadingNormalised ==
    [][/\ heading' \in 0..359
       /\ (callerPc \in {"send_start", "send_stop"} /\ callerPc' # callerPc) =>
            heading' = HeadingAsked]_vars

(***************************************************************************)
(* Claims about events                                                     *)
(***************************************************************************)
\* a step in which register_event(kind, None) runs for a kind that was never
\* registered and never dispatched
RemovesUntouched ==
    /\ regPc = "called"
    /\ regPc' = "idle"
    /\ regCall.listener = "None"
    /\ regCall.kind \in EventKinds \ touched

\* C24: removing all listeners of a kind never registered and never
\* dispatched does not fail and leaves the other kinds' registrations alone
C24_RemoveUnregisteredKind ==
    [][RemovesUntouched =>
         /\ regEnd' = "returned"
         /\ \A k \in EventKinds \ {regCall.kind} : listeners'[k] = listeners[k]]_vars

\* a step in which a dispatch ends
DispatchEnds == dispatch.pc = "loop" /\ dispatch'.pc = "idle"

\* a step in which a callback's thread ends with an exception
CallbackFails ==
    /\ \E e \in execs : execs' = execs \ {e}
    /\ cbEnd' = "failed"

\* C25: a dispatch ends without an error having started one thread for each
\* callback registered for the kind when the event was dispatched, and only
\* for those; a callback that fails changes neither the dispatch nor the
\* other callbacks' threads
C25_DispatchStartsEachCallback ==
    [][/\ DispatchEnds => (dispatchEnd' = "returned" /\ started = atDispatch)
       /\ started' \subseteq atDispatch'
       /\ CallbackFails =>
            UNCHANGED <<dispatch, started, atDispatch, dispatchEnd, listeners>>]_vars

\* C36: a dispatch never ends with an error, whatever register_event does
\* to the listeners of its kind while it runs
C36_DispatchSurvivesRegister ==
    dispatchEnd # "raised"

(***************************************************************************)
(* Claims about the LEDs                                                   *)
(***************************************************************************)
InRange(c) == c.r \in 0..255 /\ c.g \in 0..255 /\ c.b \in 0..255

\* C26: every stored colour, and the colour of every command sent, has its
\* channels in 0..255
C26_LedChannelsBounded ==
    /\ \A ch \in LedChannels : InRange(leds[ch].color)
    /\ InRange(ledCmd.color)

\* C26 witness: Color(300, -5, 90) has been stored and sent as (255, 0, 90)
\* by set_main_led, and set_back_led(300) has stored the brightness 255
C26_Witness ==
    /\ leds["main"] = [present |-> TRUE, color |-> Color(255, 0, 90)]
    /\ leds["back"] = [present |-> TRUE, color |-> Color(0, 0, 255)]
    /\ ledCmd = [kind |-> "back_brightness", color |-> Color(0, 0, 255)]

(***************************************************************************)
(* Claims about play_animation                                             *)
(***************************************************************************)
\* the thread in play_animation takes its step on an animation the toy
\* cannot play, or on a toy without animations
AnimRejectedStep ==
    /\ callerPc = "pa_check"
    /\ callerPc' # callerPc
    /\ frame.animation = "invalid" \/ ~HasAnimations(toyModel)

\* C27: play_animation with an animation that is not one of the toy's ends
\* with an error, and on a toy without animations it returns, in both cases
\* with no command sent, the guard not taken and MotionState unchanged
C27_InvalidAnimationRejected ==
    [][AnimRejectedStep =>
         /\ callerPc' = "idle"
         /\ callEnd' = IF HasAnimations(toyModel) THEN "raised" ELSE "returned"
         /\ UNCHANGED <<lastCmd, updating, heading, speed, raw_motor,
                        stabilization>>]_vars

\* C27 witness: on an R2D2 driving at speed 100 a call has been rejected (in
\* this specification only an invalid animation raises): the guard is free
\* and the speed is still 100
C27_Witness ==
    /\ toyModel = "R2D2"
    /\ callerPc = "idle"
    /\ callEnd = "raised"
    /\ speed = 100
    /\ updating = "free"
    /\ lastCmd = Cmd("roll_start", heading, 100)

\* the thread in play_animation or set_waddle sends its own command
OwnCommandStep ==
    /\ callerPc = "pa_play"
    /\ callerPc' = "idle"

\* C32: play_animation and set_waddle run __stop_all holding the guard: a
\* non-zero speed becomes 0 and a roll command with speed 0 is sent; that
\* command is still the last one sent when the animation or leg-action
\* command goes out, and when the call returns the speed and both raw powers
\* are 0
C32_StopsAllBeforeOwnCommand ==
    [][/\ (callerPc = "pa_stop" /\ callerPc' # callerPc) =>
            /\ updating = "caller"
            /\ speed' = 0
            /\ speed # 0 => lastCmd' = Cmd("roll_start", heading, 0)
       /\ (OwnCommandStep /\ frame.s0 # 0) =>
            lastCmd = Cmd("roll_start", heading, 0)
       /\ (OwnCommandStep /\ callEnd' = "returned") =>
            /\ lastCmd'.kind \in {"play_animation", "leg_waddle", "leg_stop"}
            /\ speed' = 0
            /\ raw_motor' = [left |-> 0, right |-> 0]]_vars

\* C32 witness: set_waddle(TRUE), called on an R2D2 driving at a non-zero
\* speed, has stopped the toy and is about to send the leg action
C32_Witness ==
    /\ toyModel = "R2D2"
    /\ callerPc = "pa_play"
    /\ frame.op = "set_waddle"
    /\ frame.waddle
    /\ frame.s0 # 0
    /\ speed = 0
    /\ lastCmd = Cmd("roll_start", heading, 0)

\* C28: once roll has returned, and as long as no other motion call is made,
\* the control loop sends no roll command with a non-zero speed
C28_RollStaysStopped ==
    [][(callerPc = "idle" /\ callEnd = "returned" /\ BgSends) =>
         lastCmd'.speed = 0]_vars

\* C29: a tick of the control loop sends the roll command only while the
\* target speed is non-zero and sends it with the current heading and speed;
\* it sends the raw-motor command exactly when a raw power is non-zero, and
\* with speed and both powers zero it sends nothing
C29_TickReissuesCurrent ==
    [][/\ BgSends => (speed # 0 /\ lastCmd' = Cmd("roll_start", heading, speed))
       /\ (bgPc = "check_speed" /\ bgPc' # bgPc) =>
            (bgPc' = "read_heading" <=> speed # 0)
       /\ (bgPc = "update_raw" /\ bgPc' # bgPc /\ toyOpen) =>
            lastCmd' = IF raw_motor.left # 0 \/ raw_motor.right # 0
                       THEN Cmd("raw_motor", raw_motor.left, raw_motor.right)
                       ELSE lastCmd
       /\ (BgInTick /\ speed = 0 /\ raw_motor.left = 0 /\ raw_motor.right = 0
             /\ bgPc' # bgPc) => lastCmd' = lastCmd]_vars

\* spin is running and the clock can reach the end of its duration
SpinRunning ==
    /\ callerPc \in {"spin_lock", "spin_loop"}
    /\ spinFrame.start * TickUnits + spinFrame.duration <= MaxTime * TickUnits

\* spin has returned and does not hold the guard
SpinDone ==
    /\ callerPc = "idle"
    /\ callEnd = "returned"
    /\ updating # "caller"

\* C30: a spin with a non-zero angle eventually returns with the guard
\* released, and while it is in its loop it holds the guard and the control
\* loop is not inside a tick
C30_SpinReturnsHoldingGuard ==
    /\ [](callerPc = "spin_loop" => (updating = "caller" /\ ~BgInTick))
    /\ SpinRunning ~> SpinDone

\* C30 witness: a spin of 360 degrees has returned after several heading
\* updates, the guard is free and the control loop is back in a tick
C30_Witness ==
    /\ spinFrame.angle = 360
    /\ spinFrame.angle_gone = 360
    /\ now - spinFrame.start >= 2
    /\ SpinDone
    /\ BgInTick

(***************************************************************************)
(* Claims about raw_motor                                                  *)
(***************************************************************************)
\* a step in which a call of raw_motor ends, by returning or by raising
RawMotorEnds == callerPc = "rm_left" /\ callerPc' = "idle"

RawPowerOff(m) == m.left = 0 /\ m.right = 0

\* C18: the target speed and the raw power are never both non-zero: raw_motor
\* leaves the target speed at 0, and set_speed / roll leave the raw power off
C18_SpeedAndRawPowerExclusive ==
    [][/\ speed' = 0 \/ RawPowerOff(raw_motor')
       /\ RawMotorEnds => speed' = 0
       /\ callerPc \in {"roll_speed", "ss_speed"} => RawPowerOff(raw_motor')]_vars

\* C19: raw_motor ends without an error, with stabilization back at the value
\* it had at entry and the raw power off
C19_RawMotorCompletes ==
    [][RawMotorEnds =>
         /\ callEnd' = "returned"
         /\ stabilization' = frame.stabilize
         /\ RawPowerOff(raw_motor')]_vars

\* C20: when an error leaves raw_motor after it has disabled stabilization,
\* stabilization is enabled again and the raw power is off
C20_StabilizationRestoredOnError ==
    [][(RawMotorEnds /\ callEnd' = "raised" /\ frame.stabilize) =>
         /\ stabilization'
         /\ RawPowerOff(raw_motor')]_vars

(***************************************************************************)
(* Claims about spin                                                       *)
(***************************************************************************)
\* spin has returned from a call with a non-zero angle
SpinReturned == callerPc = "idle" /\ callEnd = "returned" /\ spinFrame.angle # 0

\* C16: when spin returns, the deltas it issued add up to |angle| and the
\* heading is the start heading plus the angle, modulo 360
C16_SpinTraversesAngle ==
    SpinReturned =>
      /\ spinFrame.angle_gone = Abs(spinFrame.angle)
      /\ heading = (spinFrame.h0 + spinFrame.angle) % 360

\* C16 witness: a spin of -90 degrees from heading 0, taken in more than one
\* step, has returned with the heading at 270
C16_Witness ==
    /\ SpinReturned
    /\ spinFrame.angle = -90
    /\ spinFrame.h0 = 0
    /\ heading = 270
    /\ now - spinFrame.start >= 2

\* C17: spin does not return before max(duration, time_pre_rev * |angle| / 360)
\* has passed since it was called
C17_SpinTakesItsDuration ==
    [][(callerPc = "spin_loop" /\ callerPc' = "idle" /\ callEnd' = "returned") =>
         (now - spinFrame.start) * TickUnits >= spinFrame.duration]_vars

(***************************************************************************)
(* Claims about the fall detector                                          *)
(***************************************************************************)
Count(kind) == Cardinality({i \in 1..Len(events) : events[i] = kind})

\* C10: the landings dispatched never outnumber the freefalls, and every
\* on_landing has an on_freefall before it with no other on_landing in between
C10_LandingFollowsFreefall ==
    /\ Count("on_landing") <= Count("on_freefall")
    /\ \A i \in 1..Len(events) :
          events[i] = "on_landing" =>
            \E j \in 1..(i - 1) :
               /\ events[j] = "on_freefall"
               /\ \A k \in (j + 1)..(i - 1) : events[k] # "on_landing"

\* C10 witness: two freefalls, each followed by its landing, the second one
\* with stabilization enabled
C10_Witness ==
    /\ events = <<"on_freefall", "on_landing", "on_freefall", "on_landing">>
    /\ stabilization

\* a step in which __process_falling runs on a sample
SampleStep == samples' # samples /\ vertical_accel' # <<>>

\* a step that calls the on_freefall listeners
FreefallDispatched == Count("on_freefall")' > Count("on_freefall")

\* a step that calls the on_landing listeners
LandingDispatched == Count("on_landing")' > Count("on_landing")

\* C11: on_freefall is dispatched only when more than 0.2 time-units have
\* passed since the last-non-fall timestamp and the free-falling flag is
\* clear; the dispatch sets the flag, and the flag is cleared only by a sample
\* that also refreshes the timestamp, so one interval gives one on_freefall
C11_FreefallOncePerInterval ==
    [][/\ FreefallDispatched =>
            /\ now - last_non_fall > 2
            /\ ~free_falling
            /\ free_falling'
       /\ (free_falling /\ ~free_falling') =>
            /\ SampleStep
            /\ last_non_fall' = now
            /\ ~FreefallDispatched]_vars

\* C11 witness: a second on_freefall has been dispatched, after a sample that
\* refreshed the timestamp ended the first interval
C11_Witness ==
    /\ Count("on_freefall") = 2
    /\ free_falling
    /\ last_non_fall > 0

\* C12: on_landing is dispatched only on a sample that exceeds the landing
\* threshold: |v'| > 1.1 when stabilized, |a| > 0.8 when unstabilized
C12_LandingNeedsThreshold ==
    [][LandingDispatched =>
         IF stabilization
         THEN falling_v' < -110 * Unit \/ falling_v' > 110 * Unit
         ELSE vertical_accel'[1] < -80 \/ vertical_accel'[1] > 80]_vars

\* the predicate of line 417 on the sample just processed
NearZeroSample ==
    IF stabilization
    THEN -50 * Unit < falling_v' /\ falling_v' < 50 * Unit
    ELSE -10 < vertical_accel'[1] /\ vertical_accel'[1] < 10

\* C13 as stated: a sample on which the predicate holds refreshes the
\* timestamp and dispatches no on_freefall; on_freefall is dispatched only on
\* a sample on which the predicate is false
C13_PredicateRefreshesTimestamp ==
    [][SampleStep =>
         /\ NearZeroSample => (last_non_fall' = now /\ ~FreefallDispatched)
         /\ FreefallDispatched => ~NearZeroSample]_vars

\* C13 amended: a sample on which the predicate holds leaves the timestamp
\* alone and is the only kind that dispatches on_freefall; a sample on which
\* it is false refreshes the timestamp, clears the free-falling flag and
\* dispatches no on_freefall
C13_PredicateMeansFalling ==
    [][SampleStep =>
         /\ NearZeroSample => last_non_fall' = last_non_fall
         /\ FreefallDispatched => NearZeroSample
         /\ ~NearZeroSample =>
              /\ last_non_fall' = now
              /\ ~free_falling'
              /\ ~FreefallDispatched]_vars

\* C13 witness: unstabilized, a sample of 0 g taken more than 0.2 after the
\* timestamp has dispatched on_freefall and left the timestamp behind
C13_Witness ==
    /\ ~stabilization
    /\ vertical_accel = <<0>>
    /\ free_falling
    /\ now - last_non_fall > 2
    /\ Count("on_freefall") = 1

(***************************************************************************)
(* Claims about the travelled distance                                     *)
(***************************************************************************)
\* the length of the path through the readings pts[i..Len(pts)]
RECURSIVE PathLength(_, _)
PathLength(pts, i) ==
    IF i >= Len(pts) THEN 0
    ELSE Hypot(pts[i + 1][1] - pts[i][1], pts[i + 1][2] - pts[i][2])
         + PathLength(pts, i + 1)

\* C14: the distance is the sum of the distances between consecutive locator
\* readings; the first reading adds nothing
C14_DistanceIsPathLength == distance = PathLength(locs, 1)

\* C15: the distance never decreases, and a notification without a locator
\* reading leaves it unchanged
C15_DistanceMonotone ==
    [][/\ distance' >= distance
       /\ (samples' # samples /\ locs' = locs) => distance' = distance]_vars

\* C15 witness: distance has been accumulated over several locator readings
\* and a later notification carried none
C15_Witness ==
    /\ Len(locs) >= 2
    /\ distance >= 8
    /\ samples > Len(locs)
    /\ vertical_accel # <<>>

(***************************************************************************)
(* Claims about the adaptor                                                *)
(***************************************************************************)
\* thread t waits for a future that a loop no longer running will never set
Hung(t) ==
    pc[t] = "await" /\ result[t] = "none" /\ loopState \in {"stopped", "closed"}

\* thread t can never take another step: it is hung, or it waits for the lock
\* that a hung thread holds
BlockedForever(t) ==
    \/ Hung(t)
    \/ /\ pc[t] \in {"acquire", "stop_acquire"}
       /\ \E u \in AThreads : lock = u /\ Hung(u)

\* C6: at most one coroutine is outstanding on the event loop, and it belongs
\* to the thread that holds the lock
C6_SingleFlight ==
    /\ Cardinality(pending) <= 1
    /\ \A p \in pending : lock = p.by

\* C6 witness: one thread awaits its coroutine while another one, inside a
\* call of its own, waits to enter __execute
C6_Witness ==
    \E t, u \in AThreads :
       /\ t # u
       /\ pc[t] = "await" /\ [by |-> t, co |-> co[t]] \in pending
       /\ pc[u] = "acquire" /\ op[u] = "write"

\* C7: when __init__ has raised, the event-loop thread has ended
C7_FailedConstructionStopsLoop ==
    constructed = "raised" => loopThread = "finished"

\* C8: a close() that issued its disconnect ends, whatever the disconnect
\* did, with the event-loop thread ended and the loop closed
C8_CloseAlwaysStopsLoop ==
    \A t \in AThreads :
       op[t] = "close" /\ co[t] = "disconnect" /\ pc[t] = "idle" =>
         loopThread = "finished" /\ loopState = "closed"

\* C9: a close() called on an adaptor whose loop is already closed never
\* blocks forever, and once it has ended (returning or raising) the lock is
\* not held by its thread
C9_SecondCloseEnds ==
    \A t \in AThreads :
       op[t] = "close" /\ closedAtCall[t] =>
         /\ ~BlockedForever(t)
         /\ pc[t] = "idle" => lock # t /\ ended[t] \in {"returned", "raised"}

\* C34: a write or set_callback never waits for a coroutine handed to a
\* loop that close() has stopped, and once it has ended its thread does not
\* hold the lock
C34_WriteDuringCloseEnds ==
    \A t \in AThreads :
       op[t] \in {"write", "set_callback"} =>
         /\ ~Hung(t)
         /\ pc[t] = "idle" => lock # t /\ ended[t] \in {"returned", "raised"}

(***************************************************************************)
(* Claims about the R2D2 listeners                                         *)
(***************************************************************************)
\* C35: remove_..._listener(f) called right after add_..._listener(f) of the
\* same kind returns, leaves the kind's registry as it was before the add,
\* and a later notification of that kind does not reach f (unless f was
\* registered before the add)
C35_RemoveUndoesAdd ==
    (toyCall.op = "remove" /\ toyCall.afterAdd) =>
        /\ toyEnd = "returned"
        /\ registry[toyCall.kind] = toyCall.prior
        /\ (delivered.kind = toyCall.kind
             /\ \A w \in toyCall.prior : w.f # toyCall.f) =>
               toyCall.f \notin delivered.to

====
